---- MODULE Spec2Model ----
(***************************************************************************)
(* Eclipse logging library: the Logger engine (src/src/Logger.cpp).        *)
(*                                                                         *)
(* Strings are sequences of one-character strings.  The timestamp of a     *)
(* rendered line is read from the wall clock and is left out of the line.  *)
(***************************************************************************)
EXTENDS Integers, Sequences, FiniteSets, TLC

(***************************************************************************)
(* Bounds of the model.                                                    *)
(***************************************************************************)
NumThreads == 2
MaxCalls == 2
SeqCalls == 3

Threads == 1..NumThreads

(***************************************************************************)
(* Severity ladder.  DEBUG..ERROR are the enumerators of LogLevel; FATAL   *)
(* is the enumerator the macro layer and the tests use (ELevel), placed    *)
(* between ERROR and NONE; NONE is the last enumerator.                    *)
(***************************************************************************)
DEBUG == 0
INFO == 1
WARN == 2
ERROR == 3
FATAL == ERROR + 1
NONE == FATAL + 1

Severities == {DEBUG, INFO, WARN, ERROR, FATAL}
Levels == Severities \cup {NONE}

(***************************************************************************)
(* Characters and std::string helpers.                                     *)
(***************************************************************************)
UpperOf == [a |-> "A", b |-> "B", c |-> "C", d |-> "D", e |-> "E", f |-> "F",
            g |-> "G", h |-> "H", i |-> "I", j |-> "J", k |-> "K", l |-> "L",
            m |-> "M", n |-> "N", o |-> "O", p |-> "P", q |-> "Q", r |-> "R",
            s |-> "S", t |-> "T", u |-> "U", v |-> "V", w |-> "W", x |-> "X",
            y |-> "Y", z |-> "Z"]

LowerOf == [A |-> "a", B |-> "b", C |-> "c", D |-> "d", E |-> "e", F |-> "f",
            G |-> "g", H |-> "h", I |-> "i", J |-> "j", K |-> "k", L |-> "l",
            M |-> "m", N |-> "n", O |-> "o", P |-> "p", Q |-> "q", R |-> "r",
            S |-> "s", T |-> "t", U |-> "u", V |-> "v", W |-> "w", X |-> "x",
            Y |-> "y", Z |-> "z"]

toupper(ch) == IF ch \in DOMAIN UpperOf THEN UpperOf[ch] ELSE ch

tolower(ch) == IF ch \in DOMAIN LowerOf THEN LowerOf[ch] ELSE ch

ToUpperStr(str) == [idx \in 1..Len(str) |-> toupper(str[idx])]

ToLowerStr(str) == [idx \in 1..Len(str) |-> tolower(str[idx])]

\* 1-based position of the first character of str not in chars, 0 when none
FindFirstNotOf(str, chars) ==
    IF \E idx \in 1..Len(str) : str[idx] \notin chars
    THEN CHOOSE idx \in 1..Len(str) :
             /\ str[idx] \notin chars
             /\ \A jdx \in 1..(idx - 1) : str[jdx] \in chars
    ELSE 0

\* 1-based position of the last character of str not in chars, 0 when none
FindLastNotOf(str, chars) ==
    IF \E idx \in 1..Len(str) : str[idx] \notin chars
    THEN CHOOSE idx \in 1..Len(str) :
             /\ str[idx] \notin chars
             /\ \A jdx \in (idx + 1)..Len(str) : str[jdx] \in chars
    ELSE 0

\* 1-based position of the last character of str in chars, 0 when none
FindLastOf(str, chars) ==
    IF \E idx \in 1..Len(str) : str[idx] \in chars
    THEN CHOOSE idx \in 1..Len(str) :
             /\ str[idx] \in chars
             /\ \A jdx \in (idx + 1)..Len(str) : str[jdx] \notin chars
    ELSE 0

\* 1-based position of the first occurrence of ch in str, 0 when none
FindChar(str, ch) ==
    IF \E idx \in 1..Len(str) : str[idx] = ch
    THEN CHOOSE idx \in 1..Len(str) :
             /\ str[idx] = ch
             /\ \A jdx \in 1..(idx - 1) : str[jdx] # ch
    ELSE 0

\* str.erase(0, str.find_first_not_of(chars))
EraseLeading(str, chars) ==
    IF FindFirstNotOf(str, chars) = 0
    THEN << >>
    ELSE SubSeq(str, FindFirstNotOf(str, chars), Len(str))

\* str.erase(str.find_last_not_of(chars) + 1)
EraseTrailing(str, chars) == SubSeq(str, 1, FindLastNotOf(str, chars))

\* str.find(prefix) == 0
StartsWith(str, prefix) ==
    /\ Len(str) >= Len(prefix)
    /\ SubSeq(str, 1, Len(prefix)) = prefix

Blank == {" ", "\t"}
BlankEol == {" ", "\t", "\r", "\n"}
BlankEolQuote == {" ", "\t", "\r", "\n", "\"", "'"}

LOG_LEVEL_KEY == <<"L", "O", "G", "_", "L", "E", "V", "E", "L">>
LOG_LEVEL_EQ == LOG_LEVEL_KEY \o <<"=">>

(***************************************************************************)
(* Logger::parseLogLevelString: the result is [ok, level].                 *)
(***************************************************************************)
NoLevel == [ok |-> FALSE, level |-> DEBUG]

\* Variant: the table also knows NONE and 5.
levelMapWithNone ==
    ( <<"D", "E", "B", "U", "G">> :> DEBUG ) @@
    ( <<"I", "N", "F", "O">> :> INFO ) @@
    ( <<"W", "A", "R", "N", "I", "N", "G">> :> WARN ) @@
    ( <<"W", "A", "R", "N">> :> WARN ) @@
    ( <<"E", "R", "R", "O", "R">> :> ERROR ) @@
    ( <<"E", "R", "R">> :> ERROR ) @@
    ( <<"0">> :> DEBUG ) @@
    ( <<"1">> :> INFO ) @@
    ( <<"2">> :> WARN ) @@
    ( <<"3">> :> ERROR ) @@
    ( <<"N", "O", "N", "E">> :> NONE ) @@
    ( <<"5">> :> NONE )

levelMap ==
    ( <<"D", "E", "B", "U", "G">> :> DEBUG ) @@
    ( <<"I", "N", "F", "O">> :> INFO ) @@
    ( <<"W", "A", "R", "N", "I", "N", "G">> :> WARN ) @@
    ( <<"W", "A", "R", "N">> :> WARN ) @@
    ( <<"E", "R", "R", "O", "R">> :> ERROR ) @@
    ( <<"E", "R", "R">> :> ERROR ) @@
    ( <<"0">> :> DEBUG ) @@
    ( <<"1">> :> INFO ) @@
    ( <<"2">> :> WARN ) @@
    ( <<"3">> :> ERROR )

\* Variant: only whitespace is removed, quotes stay.
CleanLevelStrBlankOnly(levelStr) ==
    EraseTrailing(EraseLeading(levelStr, BlankEol), BlankEol)

CleanLevelStr(levelStr) ==
    EraseTrailing(EraseLeading(levelStr, BlankEolQuote), BlankEolQuote)

\* Variant: an unknown token still reports success, with the level left at
\* its default.
parseLogLevelStringDefault(levelStr) ==
    IF levelStr = << >> THEN NoLevel
    ELSE IF CleanLevelStr(levelStr) = << >> THEN NoLevel
    ELSE IF ToUpperStr(CleanLevelStr(levelStr)) \in DOMAIN levelMap
         THEN [ok |-> TRUE, level |-> levelMap[ToUpperStr(CleanLevelStr(levelStr))]]
         ELSE [ok |-> TRUE, level |-> DEBUG]

parseLogLevelString(levelStr) ==
    IF levelStr = << >> THEN NoLevel
    ELSE IF CleanLevelStr(levelStr) = << >> THEN NoLevel
    ELSE IF ToUpperStr(CleanLevelStr(levelStr)) \in DOMAIN levelMap
         THEN [ok |-> TRUE, level |-> levelMap[ToUpperStr(CleanLevelStr(levelStr))]]
         ELSE NoLevel

(***************************************************************************)
(* Logger::parseEnvFile over the lines of an opened file.                  *)
(***************************************************************************)
RECURSIVE EnvScan(_, _)
EnvScan(lines, idx) ==
    IF idx > Len(lines) THEN NoLevel
    ELSE IF lines[idx] = << >> \/ lines[idx][1] = "#"
         THEN EnvScan(lines, idx + 1)
    ELSE IF StartsWith(lines[idx], LOG_LEVEL_EQ)
         THEN parseLogLevelString(SubSeq(lines[idx], 11, Len(lines[idx])))
    ELSE EnvScan(lines, idx + 1)

(***************************************************************************)
(* Logger::parseIniFile over the lines of an opened file.                  *)
(***************************************************************************)
\* Variant: only the section named logging is recognised.
LoggingSectionsOnlyLogging == { <<"l", "o", "g", "g", "i", "n", "g">> }

LoggingSections ==
    { <<"l", "o", "g", "g", "i", "n", "g">>,
      <<"l", "o", "g">>,
      <<"d", "e", "b", "u", "g", "g", "i", "n", "g">>,
      <<"d", "e", "b", "u", "g">> }

IniTrim(line) == EraseTrailing(EraseLeading(line, Blank), BlankEol)

\* Variant: the key is compared as written.
IniKeyAsWritten(line) ==
    EraseTrailing(SubSeq(line, 1, FindChar(line, "=") - 1), Blank)

IniKey(line) ==
    ToUpperStr(EraseTrailing(SubSeq(line, 1, FindChar(line, "=") - 1), Blank))

IniValue(line) ==
    EraseTrailing(
        EraseLeading(SubSeq(line, FindChar(line, "=") + 1, Len(line)), Blank),
        BlankEolQuote)

\* Variant: an invalid value leaves foundLogLevel as it was.
RECURSIVE IniScanForgets(_, _, _, _)
IniScanForgets(lines, idx, inLoggingSection, foundLogLevel) ==
    IF idx > Len(lines) THEN NoLevel
    ELSE LET line == IniTrim(lines[idx]) IN
         IF line = << >> \/ line[1] = ";" \/ line[1] = "#"
         THEN IniScanForgets(lines, idx + 1, inLoggingSection, foundLogLevel)
         ELSE IF line[1] = "[" /\ line[Len(line)] = "]"
         THEN IniScanForgets(lines, idx + 1,
                      ToLowerStr(SubSeq(line, 2, Len(line) - 1)) \in LoggingSections,
                      foundLogLevel)
         ELSE IF /\ FindChar(line, "=") # 0
                 /\ IniKey(line) = LOG_LEVEL_KEY
                 /\ (inLoggingSection \/ ~foundLogLevel)
         THEN IF parseLogLevelString(IniValue(line)).ok
              THEN parseLogLevelString(IniValue(line))
              ELSE IniScanForgets(lines, idx + 1, inLoggingSection, foundLogLevel)
         ELSE IniScanForgets(lines, idx + 1, inLoggingSection, foundLogLevel)

RECURSIVE IniScan(_, _, _, _)
IniScan(lines, idx, inLoggingSection, foundLogLevel) ==
    IF idx > Len(lines) THEN NoLevel
    ELSE LET line == IniTrim(lines[idx]) IN
         IF line = << >> \/ line[1] = ";" \/ line[1] = "#"
         THEN IniScan(lines, idx + 1, inLoggingSection, foundLogLevel)
         ELSE IF line[1] = "[" /\ line[Len(line)] = "]"
         THEN IniScan(lines, idx + 1,
                      ToLowerStr(SubSeq(line, 2, Len(line) - 1)) \in LoggingSections,
                      foundLogLevel)
         ELSE IF /\ FindChar(line, "=") # 0
                 /\ IniKey(line) = LOG_LEVEL_KEY
                 /\ (inLoggingSection \/ ~foundLogLevel)
         THEN IF parseLogLevelString(IniValue(line)).ok
              THEN parseLogLevelString(IniValue(line))
              ELSE IniScan(lines, idx + 1, inLoggingSection, TRUE)
         ELSE IniScan(lines, idx + 1, inLoggingSection, foundLogLevel)

(***************************************************************************)
(* The file system the logger reads configuration from: a function from    *)
(* the paths that can be opened to the lines of the file.                  *)
(***************************************************************************)
PathEnv == <<".", "e", "n", "v">>
PathIni == <<".", "i", "n", "i">>
PathConfigIni == <<"c", "o", "n", "f", "i", "g", ".", "i", "n", "i">>
PathSettingsIni == <<"s", "e", "t", "t", "i", "n", "g", "s", ".", "i", "n", "i">>
PathAppEnv == <<"a", "p", "p", ".", "e", "n", "v">>
PathMissingIni == <<"m", "i", "s", "s", "i", "n", "g", ".", "i", "n", "i">>

ExtEnv == <<".", "e", "n", "v">>
ExtIni == <<".", "i", "n", "i">>

\* Variant: an empty line ends the scan.
RECURSIVE EnvScanStopsAtBlank(_, _)
EnvScanStopsAtBlank(lines, idx) ==
    IF idx > Len(lines) THEN NoLevel
    ELSE IF lines[idx] = << >> THEN NoLevel
    ELSE IF lines[idx][1] = "#" THEN EnvScanStopsAtBlank(lines, idx + 1)
    ELSE IF StartsWith(lines[idx], LOG_LEVEL_EQ)
         THEN parseLogLevelString(SubSeq(lines[idx], 11, Len(lines[idx])))
    ELSE EnvScanStopsAtBlank(lines, idx + 1)

parseEnvFileStopsAtBlank(files, filePath) ==
    IF filePath \notin DOMAIN files THEN NoLevel
    ELSE EnvScanStopsAtBlank(files[filePath], 1)

parseEnvFile(files, filePath) ==
    IF filePath \notin DOMAIN files THEN NoLevel
    ELSE EnvScan(files[filePath], 1)

\* Variant: a file that cannot be opened counts as a configuration that
\* asks for the default level.
parseIniFileMissingDefault(files, filePath) ==
    IF filePath \notin DOMAIN files THEN [ok |-> TRUE, level |-> DEBUG]
    ELSE IniScan(files[filePath], 1, FALSE, FALSE)

parseIniFile(files, filePath) ==
    IF filePath \notin DOMAIN files THEN NoLevel
    ELSE IniScan(files[filePath], 1, FALSE, FALSE)

\* Variant: the fallback is INFO instead of DEBUG.
loadEnvLogLevelFallbackInfo(files) ==
    IF parseEnvFile(files, PathEnv).ok THEN parseEnvFile(files, PathEnv).level
    ELSE IF parseIniFile(files, PathIni).ok THEN parseIniFile(files, PathIni).level
    ELSE IF parseIniFile(files, PathConfigIni).ok
         THEN parseIniFile(files, PathConfigIni).level
    ELSE IF parseIniFile(files, PathSettingsIni).ok
         THEN parseIniFile(files, PathSettingsIni).level
    ELSE INFO

\* Variant: an .env file that exists ends the search, valid or not.
loadEnvLogLevelEnvStops(files) ==
    IF PathEnv \in DOMAIN files
    THEN IF parseEnvFile(files, PathEnv).ok
         THEN parseEnvFile(files, PathEnv).level ELSE DEBUG
    ELSE IF parseIniFile(files, PathIni).ok THEN parseIniFile(files, PathIni).level
    ELSE IF parseIniFile(files, PathConfigIni).ok
         THEN parseIniFile(files, PathConfigIni).level
    ELSE IF parseIniFile(files, PathSettingsIni).ok
         THEN parseIniFile(files, PathSettingsIni).level
    ELSE DEBUG

\* Logger::loadEnvLogLevel: the level the constructor leaves in currentLevel
loadEnvLogLevel(files) ==
    IF parseEnvFile(files, PathEnv).ok THEN parseEnvFile(files, PathEnv).level
    ELSE IF parseIniFile(files, PathIni).ok THEN parseIniFile(files, PathIni).level
    ELSE IF parseIniFile(files, PathConfigIni).ok
         THEN parseIniFile(files, PathConfigIni).level
    ELSE IF parseIniFile(files, PathSettingsIni).ok
         THEN parseIniFile(files, PathSettingsIni).level
    ELSE DEBUG

\* Variant: every extension other than .ini is read as an .env file.
loadConfigFromFileAnyExtension(files, configPath) ==
    IF configPath = << >> THEN NoLevel
    ELSE IF FindLastOf(configPath, {"."}) = 0 THEN NoLevel
    ELSE LET extension ==
                 ToLowerStr(SubSeq(configPath, FindLastOf(configPath, {"."}),
                                   Len(configPath)))
         IN  IF extension = ExtIni THEN parseIniFile(files, configPath)
             ELSE parseEnvFile(files, configPath)

\* Logger::loadConfigFromFile: [ok, level]; ok is the returned bool
loadConfigFromFile(files, configPath) ==
    IF configPath = << >> THEN NoLevel
    ELSE IF FindLastOf(configPath, {"."}) = 0 THEN NoLevel
    ELSE LET extension ==
                 ToLowerStr(SubSeq(configPath, FindLastOf(configPath, {"."}),
                                   Len(configPath)))
         IN  IF extension = ExtEnv THEN parseEnvFile(files, configPath)
             ELSE IF extension = ExtIni THEN parseIniFile(files, configPath)
             ELSE NoLevel

\* the paths loadEnvLogLevel hands to std::ifstream, in order: || and the
\* early return stop at the first parser that returns true
OpenedByLoadEnv(files) ==
    IF parseEnvFile(files, PathEnv).ok THEN <<PathEnv>>
    ELSE IF parseIniFile(files, PathIni).ok THEN <<PathEnv, PathIni>>
    ELSE IF parseIniFile(files, PathConfigIni).ok
         THEN <<PathEnv, PathIni, PathConfigIni>>
    ELSE <<PathEnv, PathIni, PathConfigIni, PathSettingsIni>>

\* the paths loadConfigFromFile hands to std::ifstream: the path itself when
\* a parser is called, none when it returns before
OpenedByLoadConfig(configPath) ==
    IF configPath = << >> THEN << >>
    ELSE IF FindLastOf(configPath, {"."}) = 0 THEN << >>
    ELSE LET extension ==
                 ToLowerStr(SubSeq(configPath, FindLastOf(configPath, {"."}),
                                   Len(configPath)))
         IN  IF extension \in {ExtEnv, ExtIni} THEN <<configPath>> ELSE << >>

(***************************************************************************)
(* Rendering of one log event (Logger::logInternal, Logger::extractFilename)*)
(***************************************************************************)
AtPrefix == <<"a", "t", " ">>

\* 1-based position of the first occurrence of sub in str at or after from
FindSub(str, sub, from) ==
    IF \E idx \in from..(Len(str) - Len(sub) + 1) :
           SubSeq(str, idx, idx + Len(sub) - 1) = sub
    THEN CHOOSE idx \in from..(Len(str) - Len(sub) + 1) :
             /\ SubSeq(str, idx, idx + Len(sub) - 1) = sub
             /\ \A jdx \in from..(idx - 1) :
                    SubSeq(str, jdx, jdx + Len(sub) - 1) # sub
    ELSE 0

extractFilename(trace) ==
    LET atPos == FindSub(trace, AtPrefix, 1)
        pathStart == atPos + 3
        colonPos == FindSub(trace, <<":">>, pathStart)
        fullPath == SubSeq(trace, pathStart, colonPos - 1)
        lastSep == FindLastOf(fullPath, {"\\", "/"})
        filename == IF lastSep # 0
                    THEN SubSeq(fullPath, lastSep + 1, Len(fullPath))
                    ELSE fullPath
    IN  IF atPos = 0 THEN trace
        ELSE IF colonPos = 0 THEN trace
        ELSE SubSeq(trace, 1, pathStart - 1) \o filename
                 \o SubSeq(trace, colonPos, Len(trace))

\* the text of the trace line after the glyph
TraceText(trace) ==
    LET cleanTrace == extractFilename(trace)
        atPos == FindSub(cleanTrace, AtPrefix, 1)
    IN  IF atPos # 0
        THEN AtPrefix \o SubSeq(cleanTrace, atPos + 3, Len(cleanTrace))
        ELSE cleanTrace

DetailPrefix == <<"[", "1", "]", " ">>

getLevelName(level) ==
    CASE level = DEBUG -> <<"d", "e", "b", "u", "g">>
      [] level = INFO -> <<"i", "n", "f", "o">>
      [] level = WARN -> <<"w", "a", "r", "n">>
      [] level = ERROR -> <<"e", "r", "r", "o", "r">>
      [] OTHER -> <<"u", "n", "k", "n", "o", "w", "n">>

\* Variant: the trace line always closes the block.
RenderBlockTraceCloses(level, tag, message, details, trace) ==
    << [kind |-> "header", glyph |-> "top", level |-> level,
        name |-> getLevelName(level), tag |-> tag, text |-> message] >>
    \o (IF trace # << >>
        THEN << [kind |-> "trace", glyph |-> "bottom",
                 text |-> TraceText(trace)] >>
        ELSE << >>)
    \o (IF details # << >>
        THEN << [kind |-> "details", glyph |-> "bottom",
                 text |-> DetailPrefix \o details] >>
        ELSE << >>)

\* the lines logInternal puts into its ostringstream, in order
RenderBlock(level, tag, message, details, trace) ==
    << [kind |-> "header", glyph |-> "top", level |-> level,
        name |-> getLevelName(level), tag |-> tag, text |-> message] >>
    \o (IF trace # << >> /\ details = << >>
        THEN << [kind |-> "trace", glyph |-> "bottom",
                 text |-> TraceText(trace)] >>
        ELSE (IF trace # << >>
              THEN << [kind |-> "trace", glyph |-> "middle",
                       text |-> TraceText(trace)] >>
              ELSE << >>)
             \o
             (IF details # << >>
              THEN << [kind |-> "details", glyph |-> "bottom",
                       text |-> DetailPrefix \o details] >>
              ELSE << >>))

(***************************************************************************)
(* Inputs of the calls the threads make.                                   *)
(***************************************************************************)
AppEnvLines == << <<"#", " ", "a", "p", "p">>,
                  <<"L", "O", "G", "_", "L", "E", "V", "E", "L", "=", "\"", "w", "a", "r", "n", "\"">> >>
DotEnvInvalid == << <<"L", "O", "G", "_", "L", "E", "V", "E", "L", "=", "v", "e", "r", "b", "o", "s", "e">> >>
ConfigIniError == << <<"[", "L", "o", "g", "g", "i", "n", "g", "]">>,
                     <<" ", "l", "o", "g", "_", "l", "e", "v", "e", "l", " ", "=", " ", "3", " ">> >>

FsBare == (PathAppEnv :> AppEnvLines)
FsIni == FsBare @@ (PathEnv :> DotEnvInvalid) @@ (PathConfigIni :> ConfigIniError)

DefaultFileSystems == {FsBare, FsIni}

TraceInput == <<"a", "t", " ", "s", "r", "c", "/", "n", "e", "t", "/", "i", "o", ".", "c", "p", "p", ":", "7", " ", "[", "r", "u", "n", "]">>
DetailsInput == <<"c", "o", "d", "e", "=", "4", "0", "4">>
\* what the concurrent threads pass: the lowest, a middle and the highest
\* severity of LogLevel; a one-line and a three-line event
LogLevelInputs == {DEBUG, WARN, ERROR}
SetLevelInputs == {DEBUG, WARN, NONE}
EventInputs == { [trace |-> << >>, details |-> << >>],
                 [trace |-> TraceInput, details |-> DetailsInput] }
ConfigPathInputs == { PathAppEnv, PathMissingIni }

\* what the single thread of SpecSeq passes: every level, every event shape
AllEventInputs == [trace : {<< >>, TraceInput}, details : {<< >>, DetailsInput}]

(***************************************************************************)
(* The output destinations (OutputDestination) and the log file paths the  *)
(* callers pass to setLogFile.                                             *)
(***************************************************************************)
CONSOLE == "CONSOLE"
FILE == "FILE"
BOTH == "BOTH"
NO_OUTPUT == "NONE"
OutputDestinations == {CONSOLE, FILE, BOTH, NO_OUTPUT}

\* logFilePath before the first setLogFile
NoPath == << >>

(***************************************************************************)
(* State.                                                                  *)
(*   budget         the number of calls each thread makes in this run      *)
(*   fs             the configuration files on disk                        *)
(*   opened         history: the paths handed to std::ifstream by the most *)
(*                  recent construction or loadConfigFromFile call         *)
(*   onceFlag       the std::once_flag of getInstance                      *)
(*   instance       the static Logger* (0 is nullptr; the n-th constructed *)
(*                  object is n)                                           *)
(*   constructions  how many times Logger::Logger has run                  *)
(*   currentLevel   Logger::currentLevel                                   *)
(*   levelMutex     owner of Logger::levelMutex, 0 when unlocked           *)
(*   logMutex       owner of Logger::logMutex, 0 when unlocked             *)
(*   console        the lines written to std::cout, each with the call     *)
(*                  <<thread, call number>> that wrote it                  *)
(*   pc, arg, out   per thread: position, arguments and locals of the call *)
(*                  in progress, and its std::ostringstream                *)
(*   ref            per thread: the Logger& last returned by getInstance   *)
(*   ncalls         per thread: number of completed calls on the logger    *)
(*   passed         history, per thread: number of its log calls that got  *)
(*                  past the level check                                   *)
(*   lastWrite      history: the level handed to the most recent           *)
(*                  assignment of currentLevel                             *)
(*   outputDestination  the sinks an admitted event goes to                *)
(*   logFilePath    the path handed to the most recent setLogFile          *)
(*   fileHandle     TRUE while the log file stream is open                 *)
(*   logFiles       the log files on disk: path :> the blocks appended     *)
(***************************************************************************)
VARIABLES budget, opened, fs, onceFlag, instance, constructions, currentLevel, levelMutex,
          logMutex, console, pc, ref, arg, out, ncalls, passed, lastWrite,
          outputDestination, logFilePath, fileHandle, logFiles

vars == <<budget, opened, fs, onceFlag, instance, constructions, currentLevel, levelMutex,
          logMutex, console, pc, ref, arg, out, ncalls, passed, lastWrite,
          outputDestination, logFilePath, fileHandle, logFiles>>

NoArg == [op |-> "none"]

CallId(t) == <<t, ncalls[t] + 1>>

\* the process before the first getInstance
Fresh ==
    /\ opened = << >>
    /\ onceFlag = "idle"
    /\ instance = 0
    /\ constructions = 0
    /\ currentLevel = DEBUG
    /\ levelMutex = 0
    /\ logMutex = 0
    /\ console = << >>
    /\ pc = [t \in Threads |-> "idle"]
    /\ ref = [t \in Threads |-> 0]
    /\ arg = [t \in Threads |-> NoArg]
    /\ out = [t \in Threads |-> << >>]
    /\ ncalls = [t \in Threads |-> 0]
    /\ passed = [t \in Threads |-> 0]
    /\ lastWrite = DEBUG
    /\ outputDestination = CONSOLE
    /\ logFilePath = NoPath
    /\ fileHandle = FALSE
    /\ logFiles = << >>

Start ==
    /\ fs \in DefaultFileSystems
    /\ Fresh

Init ==
    /\ budget = MaxCalls
    /\ Start

(***************************************************************************)
(* Logger::getInstance and the constructor.                                *)
(***************************************************************************)
\* Variant: a hand-written check of the instance pointer, which lets a second
\* caller in while the first is still constructing.
OnceCanEnterRacy(flag) == flag # "done"

\* std::call_once lets a caller run the callable only when nobody has
OnceCanEnter(flag) == flag = "idle"

GetInstance(t) ==
    /\ pc[t] = "idle"
    /\ IF onceFlag = "done"
       THEN /\ ref' = [ref EXCEPT ![t] = instance]
            /\ UNCHANGED <<onceFlag, pc>>
       ELSE IF OnceCanEnter(onceFlag)
       THEN /\ onceFlag' = "active"
            /\ pc' = [pc EXCEPT ![t] = "ctor"]
            /\ UNCHANGED ref
       ELSE /\ pc' = [pc EXCEPT ![t] = "once_wait"]
            /\ UNCHANGED <<onceFlag, ref>>
    /\ UNCHANGED <<outputDestination, logFilePath, fileHandle, logFiles,
                   budget, opened, fs, instance, constructions, currentLevel, levelMutex,
                   logMutex, console, arg, out, ncalls, passed, lastWrite>>

\* instance = new Logger(): currentLevel(DEBUG), then loadEnvLogLevel()
Construct(t) ==
    /\ pc[t] = "ctor"
    /\ constructions' = constructions + 1
    /\ instance' = constructions + 1
    /\ currentLevel' = loadEnvLogLevel(fs)
    /\ lastWrite' = loadEnvLogLevel(fs)
    /\ opened' = OpenedByLoadEnv(fs)
    /\ onceFlag' = "done"
    /\ ref' = [ref EXCEPT ![t] = constructions + 1]
    /\ pc' = [pc EXCEPT ![t] = "idle"]
    /\ UNCHANGED <<outputDestination, logFilePath, fileHandle, logFiles,
                   budget, fs, levelMutex, logMutex, console, arg, out, ncalls,
                   passed>>

\* a caller that found the initialisation running returns when it is done
OnceWait(t) ==
    /\ pc[t] = "once_wait"
    /\ onceFlag = "done"
    /\ ref' = [ref EXCEPT ![t] = instance]
    /\ pc' = [pc EXCEPT ![t] = "idle"]
    /\ UNCHANGED <<outputDestination, logFilePath, fileHandle, logFiles,
                   budget, opened, fs, onceFlag, instance, constructions, currentLevel,
                   levelMutex, logMutex, console, arg, out, ncalls, passed,
                   lastWrite>>

\* a thread may start a call on the logger once it holds a reference to it
CanCall(t) ==
    /\ pc[t] = "idle"
    /\ ref[t] # 0
    /\ ncalls[t] < budget

Return(t) ==
    /\ pc' = [pc EXCEPT ![t] = "idle"]
    /\ arg' = [arg EXCEPT ![t] = NoArg]
    /\ ncalls' = [ncalls EXCEPT ![t] = @ + 1]

(***************************************************************************)
(* Logger::setLogLevel and Logger::getLogLevel.                            *)
(***************************************************************************)
SetLogLevel(t, level) ==
    /\ CanCall(t)
    /\ pc' = [pc EXCEPT ![t] = "set_lock"]
    /\ arg' = [arg EXCEPT ![t] = [op |-> "set", level |-> level]]
    /\ UNCHANGED <<outputDestination, logFilePath, fileHandle, logFiles,
                   budget, opened, fs, onceFlag, instance, constructions, currentLevel,
                   levelMutex, logMutex, console, ref, out, ncalls, passed,
                   lastWrite>>

SetLock(t) ==
    /\ pc[t] = "set_lock"
    /\ levelMutex = 0
    /\ levelMutex' = t
    /\ pc' = [pc EXCEPT ![t] = "set_assign"]
    /\ UNCHANGED <<outputDestination, logFilePath, fileHandle, logFiles,
                   budget, opened, fs, onceFlag, instance, constructions, currentLevel,
                   logMutex, console, ref, arg, out, ncalls, passed,
                   lastWrite>>

\* Variant: the assignment is left out.
SetAssignNoStore(t) ==
    /\ pc[t] = "set_assign"
    /\ lastWrite' = arg[t].level
    /\ levelMutex' = 0
    /\ Return(t)
    /\ UNCHANGED <<outputDestination, logFilePath, fileHandle, logFiles,
                   budget, opened, fs, onceFlag, instance, constructions, currentLevel,
                   logMutex, console, ref, out, passed>>

\* currentLevel = level; the lock_guard unlocks on return
SetAssign(t) ==
    /\ pc[t] = "set_assign"
    /\ currentLevel' = arg[t].level
    /\ lastWrite' = arg[t].level
    /\ levelMutex' = 0
    /\ Return(t)
    /\ UNCHANGED <<outputDestination, logFilePath, fileHandle, logFiles,
                   budget, opened, fs, onceFlag, instance, constructions, logMutex, console,
                   ref, out, passed>>

GetLogLevel(t) ==
    /\ CanCall(t)
    /\ pc' = [pc EXCEPT ![t] = "get_lock"]
    /\ arg' = [arg EXCEPT ![t] = [op |-> "get"]]
    /\ UNCHANGED <<outputDestination, logFilePath, fileHandle, logFiles,
                   budget, opened, fs, onceFlag, instance, constructions, currentLevel,
                   levelMutex, logMutex, console, ref, out, ncalls, passed,
                   lastWrite>>

GetLock(t) ==
    /\ pc[t] = "get_lock"
    /\ levelMutex = 0
    /\ levelMutex' = t
    /\ pc' = [pc EXCEPT ![t] = "get_read"]
    /\ UNCHANGED <<outputDestination, logFilePath, fileHandle, logFiles,
                   budget, opened, fs, onceFlag, instance, constructions, currentLevel,
                   logMutex, console, ref, arg, out, ncalls, passed,
                   lastWrite>>

\* Variant: the getter answers the level the logger was constructed with.
GetReadInitial(t) ==
    /\ pc[t] = "get_read"
    /\ arg' = [arg EXCEPT ![t] = [op |-> "get", result |-> loadEnvLogLevel(fs)]]
    /\ levelMutex' = 0
    /\ pc' = [pc EXCEPT ![t] = "get_ret"]
    /\ UNCHANGED <<outputDestination, logFilePath, fileHandle, logFiles,
                   budget, opened, fs, onceFlag, instance, constructions, currentLevel,
                   logMutex, console, ref, out, ncalls, passed, lastWrite>>

\* return currentLevel: the value is read under the lock
GetRead(t) ==
    /\ pc[t] = "get_read"
    /\ arg' = [arg EXCEPT ![t] = [op |-> "get", result |-> currentLevel]]
    /\ levelMutex' = 0
    /\ pc' = [pc EXCEPT ![t] = "get_ret"]
    /\ UNCHANGED <<outputDestination, logFilePath, fileHandle, logFiles,
                   budget, opened, fs, onceFlag, instance, constructions, currentLevel,
                   logMutex, console, ref, out, ncalls, passed, lastWrite>>

GetReturn(t) ==
    /\ pc[t] = "get_ret"
    /\ Return(t)
    /\ UNCHANGED <<outputDestination, logFilePath, fileHandle, logFiles,
                   budget, opened, fs, onceFlag, instance, constructions, currentLevel,
                   levelMutex, logMutex, console, ref, out, passed,
                   lastWrite>>

(***************************************************************************)
(* Logger::logInternal, reached through debug/info/warning/error and the   *)
(* macro layer.  The caller puts its own identity into tag and message, as *)
(* the threaded tests do.                                                  *)
(***************************************************************************)
\* Variant: `level <= currentLevel` in the early return.
AdmittedStrict(level, threshold) == level > threshold

\* the negation of `level < currentLevel`
Admitted(level, threshold) == ~(level < threshold)

Log(t, level, trace, details) ==
    /\ CanCall(t)
    /\ pc' = [pc EXCEPT ![t] = "log_level_lock"]
    /\ arg' = [arg EXCEPT ![t] =
                  [op |-> "log", level |-> level, tag |-> t,
                   message |-> ncalls[t] + 1, trace |-> trace,
                   details |-> details]]
    /\ UNCHANGED <<outputDestination, logFilePath, fileHandle, logFiles,
                   budget, opened, fs, onceFlag, instance, constructions, currentLevel,
                   levelMutex, logMutex, console, ref, out, ncalls, passed,
                   lastWrite>>

LogLevelLock(t) ==
    /\ pc[t] = "log_level_lock"
    /\ levelMutex = 0
    /\ levelMutex' = t
    /\ pc' = [pc EXCEPT ![t] = "log_gate"]
    /\ UNCHANGED <<outputDestination, logFilePath, fileHandle, logFiles,
                   budget, opened, fs, onceFlag, instance, constructions, currentLevel,
                   logMutex, console, ref, arg, out, ncalls, passed,
                   lastWrite>>

\* Variant: the level lock's scope is the whole function, so a call that
\* passes the check keeps the lock.
LogGateHoldsLevelLock(t) ==
    /\ pc[t] = "log_gate"
    /\ arg' = [arg EXCEPT ![t] =
                  [op |-> "log", level |-> arg[t].level, tag |-> arg[t].tag,
                   message |-> arg[t].message, trace |-> arg[t].trace,
                   details |-> arg[t].details, seen |-> currentLevel]]
    /\ IF Admitted(arg[t].level, currentLevel)
       THEN /\ pc' = [pc EXCEPT ![t] = "log_lock"]
            /\ passed' = [passed EXCEPT ![t] = @ + 1]
            /\ UNCHANGED levelMutex
       ELSE /\ pc' = [pc EXCEPT ![t] = "log_skip"]
            /\ levelMutex' = 0
            /\ UNCHANGED passed
    /\ UNCHANGED <<outputDestination, logFilePath, fileHandle, logFiles,
                   budget, opened, fs, onceFlag, instance, constructions, currentLevel,
                   logMutex, console, ref, out, ncalls, lastWrite>>

\* Variant: the block is rendered before the level is compared.
LogGateRendersFirst(t) ==
    /\ pc[t] = "log_gate"
    /\ arg' = [arg EXCEPT ![t] =
                  [op |-> "log", level |-> arg[t].level, tag |-> arg[t].tag,
                   message |-> arg[t].message, trace |-> arg[t].trace,
                   details |-> arg[t].details, seen |-> currentLevel]]
    /\ out' = [out EXCEPT ![t] =
                  RenderBlock(arg[t].level, arg[t].tag, arg[t].message,
                              arg[t].details, arg[t].trace)]
    /\ levelMutex' = 0
    /\ IF Admitted(arg[t].level, currentLevel)
       THEN /\ pc' = [pc EXCEPT ![t] = "log_lock"]
            /\ passed' = [passed EXCEPT ![t] = @ + 1]
       ELSE /\ pc' = [pc EXCEPT ![t] = "log_skip"]
            /\ UNCHANGED passed
    /\ UNCHANGED <<outputDestination, logFilePath, fileHandle, logFiles,
                   budget, opened, fs, onceFlag, instance, constructions, currentLevel,
                   logMutex, console, ref, ncalls, lastWrite>>

\* if (level < currentLevel) return; and the end of the level lock's scope.
\* The threshold the comparison read is kept in arg[t].seen.
LogGate(t) ==
    /\ pc[t] = "log_gate"
    /\ arg' = [arg EXCEPT ![t] =
                  [op |-> "log", level |-> arg[t].level, tag |-> arg[t].tag,
                   message |-> arg[t].message, trace |-> arg[t].trace,
                   details |-> arg[t].details, seen |-> currentLevel]]
    /\ levelMutex' = 0
    /\ IF Admitted(arg[t].level, currentLevel)
       THEN /\ pc' = [pc EXCEPT ![t] = "log_lock"]
            /\ passed' = [passed EXCEPT ![t] = @ + 1]
       ELSE /\ pc' = [pc EXCEPT ![t] = "log_skip"]
            /\ UNCHANGED passed
    /\ UNCHANGED <<outputDestination, logFilePath, fileHandle, logFiles,
                   budget, opened, fs, onceFlag, instance, constructions, currentLevel,
                   logMutex, console, ref, out, ncalls, lastWrite>>

\* the early return of a call that did not pass the level check
LogSkip(t) ==
    /\ pc[t] = "log_skip"
    /\ Return(t)
    /\ UNCHANGED <<outputDestination, logFilePath, fileHandle, logFiles,
                   budget, opened, fs, onceFlag, instance, constructions, currentLevel,
                   levelMutex, logMutex, console, ref, out, passed,
                   lastWrite>>

\* Variant: the output lock is not waited for.
LogLockNoWait(t) ==
    /\ pc[t] = "log_lock"
    /\ logMutex' = t
    /\ out' = [out EXCEPT ![t] =
                  RenderBlock(arg[t].level, arg[t].tag, arg[t].message,
                              arg[t].details, arg[t].trace)]
    /\ pc' = [pc EXCEPT ![t] = "log_write"]
    /\ UNCHANGED <<outputDestination, logFilePath, fileHandle, logFiles,
                   budget, opened, fs, onceFlag, instance, constructions, currentLevel,
                   levelMutex, console, ref, arg, ncalls, passed, lastWrite>>

\* Variant: try_lock; a call that finds the output lock taken gives up.
LogLockTry(t) ==
    /\ pc[t] = "log_lock"
    /\ IF logMutex = 0
       THEN /\ logMutex' = t
            /\ out' = [out EXCEPT ![t] =
                          RenderBlock(arg[t].level, arg[t].tag, arg[t].message,
                                      arg[t].details, arg[t].trace)]
            /\ pc' = [pc EXCEPT ![t] = "log_write"]
            /\ UNCHANGED <<arg, ncalls>>
       ELSE /\ Return(t)
            /\ UNCHANGED <<logMutex, out>>
    /\ UNCHANGED <<outputDestination, logFilePath, fileHandle, logFiles,
                   budget, opened, fs, onceFlag, instance, constructions, currentLevel,
                   levelMutex, console, ref, passed, lastWrite>>

\* Variant: the level is compared a second time under the output lock and
\* nothing is rendered when the call no longer passes.
LogLockRecheck(t) ==
    /\ pc[t] = "log_lock"
    /\ logMutex = 0
    /\ logMutex' = t
    /\ out' = [out EXCEPT ![t] =
                  IF arg[t].level < currentLevel THEN << >>
                  ELSE RenderBlock(arg[t].level, arg[t].tag, arg[t].message,
                                   arg[t].details, arg[t].trace)]
    /\ pc' = [pc EXCEPT ![t] = "log_write"]
    /\ UNCHANGED <<outputDestination, logFilePath, fileHandle, logFiles,
                   budget, opened, fs, onceFlag, instance, constructions, currentLevel,
                   levelMutex, console, ref, arg, ncalls, passed, lastWrite>>

\* std::lock_guard logLock(logMutex), then the block is built in `out`
LogLock(t) ==
    /\ pc[t] = "log_lock"
    /\ logMutex = 0
    /\ logMutex' = t
    /\ out' = [out EXCEPT ![t] =
                  RenderBlock(arg[t].level, arg[t].tag, arg[t].message,
                              arg[t].details, arg[t].trace)]
    /\ pc' = [pc EXCEPT ![t] = "log_write"]
    /\ UNCHANGED <<outputDestination, logFilePath, fileHandle, logFiles,
                   budget, opened, fs, onceFlag, instance, constructions, currentLevel,
                   levelMutex, console, ref, arg, ncalls, passed, lastWrite>>

\* Variant: the line is put in front of what the sink already holds.
LogWritePrepend(t) ==
    /\ pc[t] = "log_write"
    /\ out[t] # << >>
    /\ console' = << [by |-> CallId(t), line |-> Head(out[t])] >> \o console
    /\ out' = [out EXCEPT ![t] = Tail(@)]
    /\ UNCHANGED <<outputDestination, logFilePath, fileHandle, logFiles,
                   budget, opened, fs, onceFlag, instance, constructions, currentLevel,
                   levelMutex, logMutex, pc, ref, arg, ncalls, passed,
                   lastWrite>>

\* std::cout << out.str(): the lines reach the console one after the other
LogWrite(t) ==
    /\ pc[t] = "log_write"
    /\ out[t] # << >>
    /\ console' = Append(console, [by |-> CallId(t), line |-> Head(out[t])])
    /\ out' = [out EXCEPT ![t] = Tail(@)]
    /\ UNCHANGED <<outputDestination, logFilePath, fileHandle, logFiles,
                   budget, opened, fs, onceFlag, instance, constructions, currentLevel,
                   levelMutex, logMutex, pc, ref, arg, ncalls, passed,
                   lastWrite>>

\* std::cout.flush() and the end of logInternal, which unlocks logMutex
LogFlush(t) ==
    /\ pc[t] = "log_write"
    /\ out[t] = << >>
    /\ logMutex' = 0
    /\ Return(t)
    /\ UNCHANGED <<outputDestination, logFilePath, fileHandle, logFiles,
                   budget, opened, fs, onceFlag, instance, constructions, currentLevel,
                   levelMutex, console, ref, out, passed, lastWrite>>

(***************************************************************************)
(* Logger::loadConfigFromFile: the file is read and parsed first; the      *)
(* level lock is taken only around the assignment of a parsed level.       *)
(***************************************************************************)
LoadConfig(t, configPath) ==
    /\ CanCall(t)
    /\ arg' = [arg EXCEPT ![t] =
                  [op |-> "cfg", path |-> configPath,
                   ok |-> loadConfigFromFile(fs, configPath).ok,
                   level |-> loadConfigFromFile(fs, configPath).level]]
    /\ pc' = [pc EXCEPT ![t] = IF loadConfigFromFile(fs, configPath).ok
                               THEN "cfg_lock" ELSE "cfg_ret"]
    /\ opened' = OpenedByLoadConfig(configPath)
    /\ UNCHANGED <<outputDestination, logFilePath, fileHandle, logFiles,
                   budget, fs, onceFlag, instance, constructions, currentLevel,
                   levelMutex, logMutex, console, ref, out, ncalls, passed,
                   lastWrite>>

CfgLock(t) ==
    /\ pc[t] = "cfg_lock"
    /\ levelMutex = 0
    /\ levelMutex' = t
    /\ pc' = [pc EXCEPT ![t] = "cfg_assign"]
    /\ UNCHANGED <<outputDestination, logFilePath, fileHandle, logFiles,
                   budget, opened, fs, onceFlag, instance, constructions, currentLevel,
                   logMutex, console, ref, arg, out, ncalls, passed,
                   lastWrite>>

CfgAssign(t) ==
    /\ pc[t] = "cfg_assign"
    /\ currentLevel' = arg[t].level
    /\ lastWrite' = arg[t].level
    /\ levelMutex' = 0
    /\ pc' = [pc EXCEPT ![t] = "cfg_ret"]
    /\ UNCHANGED <<outputDestination, logFilePath, fileHandle, logFiles,
                   budget, opened, fs, onceFlag, instance, constructions, logMutex, console,
                   ref, arg, out, ncalls, passed>>

CfgReturn(t) ==
    /\ pc[t] = "cfg_ret"
    /\ Return(t)
    /\ UNCHANGED <<outputDestination, logFilePath, fileHandle, logFiles,
                   budget, opened, fs, onceFlag, instance, constructions, currentLevel,
                   levelMutex, logMutex, console, ref, out, passed,
                   lastWrite>>

Next ==
    \E t \in Threads :
        \/ GetInstance(t)
        \/ Construct(t)
        \/ OnceWait(t)
        \/ \E level \in SetLevelInputs : SetLogLevel(t, level)
        \/ SetLock(t)
        \/ SetAssign(t)
        \/ GetLogLevel(t)
        \/ GetLock(t)
        \/ GetRead(t)
        \/ GetReturn(t)
        \/ \E level \in LogLevelInputs, ev \in EventInputs :
               Log(t, level, ev.trace, ev.details)
        \/ LogLevelLock(t)
        \/ LogGate(t)
        \/ LogSkip(t)
        \/ LogLock(t)
        \/ LogWrite(t)
        \/ LogFlush(t)
        \/ \E configPath \in ConfigPathInputs : LoadConfig(t, configPath)
        \/ CfgLock(t)
        \/ CfgAssign(t)
        \/ CfgReturn(t)

(***************************************************************************)
(* One thread alone, passing every level and every event shape.            *)
(***************************************************************************)
SeqThreads == {t \in Threads : \A u \in Threads : t <= u}

InitSeq ==
    /\ budget = SeqCalls
    /\ Start

PathNoExtension == <<"l", "o", "g", "g", "i", "n", "g">>
PathOtherExtension == <<"n", "o", "t", "e", "s", ".", "t", "x", "t">>

SeqConfigPathInputs ==
    { << >>, PathNoExtension, PathOtherExtension, PathAppEnv, PathConfigIni,
      PathMissingIni }

NextSeq ==
    \E t \in SeqThreads :
        \/ GetInstance(t)
        \/ Construct(t)
        \/ \E level \in Levels : SetLogLevel(t, level)
        \/ SetLock(t)
        \/ SetAssign(t)
        \/ GetLogLevel(t)
        \/ GetLock(t)
        \/ GetRead(t)
        \/ GetReturn(t)
        \/ \E level \in Severities, ev \in AllEventInputs :
               Log(t, level, ev.trace, ev.details)
        \/ LogLevelLock(t)
        \/ LogGate(t)
        \/ LogSkip(t)
        \/ LogLock(t)
        \/ LogWrite(t)
        \/ LogFlush(t)
        \/ \E configPath \in SeqConfigPathInputs : LoadConfig(t, configPath)
        \/ CfgLock(t)
        \/ CfgAssign(t)
        \/ CfgReturn(t)

SpecSeq == InitSeq /\ [][NextSeq]_vars

(***************************************************************************)
(* Configuration inputs: the texts that follow LOG_LEVEL= in a file, the   *)
(* files built from them, and the file systems the logger is started on.   *)
(***************************************************************************)
Tok ==
    [ DEBUG |-> <<"D", "E", "B", "U", "G">>,
      INFO |-> <<"I", "N", "F", "O">>,
      WARN |-> <<"W", "A", "R", "N">>,
      WARNING |-> <<"W", "A", "R", "N", "I", "N", "G">>,
      ERROR |-> <<"E", "R", "R", "O", "R">>,
      ERR |-> <<"E", "R", "R">>,
      FATAL |-> <<"F", "A", "T", "A", "L">>,
      n0 |-> <<"0">>,
      n1 |-> <<"1">>,
      n2 |-> <<"2">>,
      n3 |-> <<"3">>,
      n4 |-> <<"4">>,
      lower_debug |-> <<"d", "e", "b", "u", "g">>,
      mixed_info |-> <<"I", "n", "f", "o">>,
      lower_fatal |-> <<"f", "a", "t", "a", "l">>,
      dq_warning |-> <<"\"", "W", "A", "R", "N", "I", "N", "G", "\"">>,
      sq_info_sp |-> <<"'", "i", "n", "f", "o", "'", " ", " ">>,
      sp_error |-> <<" ", " ", "e", "r", "r", "o", "r">>,
      cr_info |-> <<"I", "N", "F", "O", "\r">>,
      dq2_debug |-> <<"\"", "\"", "D", "E", "B", "U", "G", "\"", "\"">>,
      mixed_quotes |-> <<"\"", "D", "E", "B", "U", "G", "'">>,
      open_quote |-> <<"\"", "D", "E", "B", "U", "G">>,
      empty |-> << >>,
      blanks |-> <<" ", " ">>,
      quotes_only |-> <<"\"", "\"">>,
      n5 |-> <<"5">>,
      n01 |-> <<"0", "1">>,
      NONE |-> <<"N", "O", "N", "E">>,
      TRACE |-> <<"T", "R", "A", "C", "E">>,
      NOT_A_LEVEL |-> <<"N", "O", "T", "_", "A", "_", "L", "E", "V", "E", "L">>,
      warnin |-> <<"W", "A", "R", "N", "I", "N">>,
      inner_quote |-> <<"W", "A", "\"", "R", "N">>,
      inner_space |-> <<"D", "E", " ", "B", "U", "G">>,
      commented |-> <<"I", "N", "F", "O", " ", " ", "#", " ", "n", "o", "t", "e">> ]

Tokens == { Tok[k] : k \in DOMAIN Tok }

\* one line: LOG_LEVEL= followed by the text
KeyLine(text) == LOG_LEVEL_EQ \o text

EnvDoc ==
    [ two_valid |-> << <<"L", "O", "G", "_", "L", "E", "V", "E", "L", "=", "E", "R", "R", "O", "R">>,
          <<"o", "t", "h", "e", "r", "=", "v", "a", "l", "u", "e">>,
          <<"L", "O", "G", "_", "L", "E", "V", "E", "L", "=", "I", "N", "F", "O">> >>,
      invalid_then_valid |-> << <<"#", " ", "m", "a", "l", "f", "o", "r", "m", "e", "d">>,
          <<"L", "O", "G", "_", "L", "E", "V", "E", "L">>,
          <<"=", "D", "E", "B", "U", "G">>,
          <<"L", "O", "G", "_", "L", "E", "V", "E", "L", "=">>,
          <<"L", "O", "G", "_", "L", "E", "V", "E", "L", "=", "I", "N", "V", "A", "L", "I", "D", "_", "L", "E", "V", "E", "L">>,
          <<"L", "O", "G", "_", "L", "E", "V", "E", "L", "=", "W", "A", "R", "N">> >>,
      bogus_then_valid |-> << <<"L", "O", "G", "_", "L", "E", "V", "E", "L", "=", "v", "e", "r", "b", "o", "s", "e">>,
          <<"L", "O", "G", "_", "L", "E", "V", "E", "L", "=", "I", "N", "F", "O">> >>,
      valid_then_bogus |-> << <<"L", "O", "G", "_", "L", "E", "V", "E", "L", "=", "W", "A", "R", "N">>,
          <<"L", "O", "G", "_", "L", "E", "V", "E", "L", "=", "v", "e", "r", "b", "o", "s", "e">> >>,
      commented |-> << <<"#", " ", "T", "h", "i", "s", " ", "i", "s", " ", "a", " ", "c", "o", "m", "m", "e", "n", "t">>,
          <<" ", " ", " ">>,
          <<"L", "O", "G", "_", "L", "E", "V", "E", "L", "=", "I", "N", "F", "O", " ", " ", " ">>,
          <<"#", " ", "A", "n", "o", "t", "h", "e", "r", " ", "c", "o", "m", "m", "e", "n", "t">> >>,
      no_key |-> << <<"O", "T", "H", "E", "R", "=", "1">> >>,
      empty_file |-> << >>,
      lower_key |-> << <<"l", "o", "g", "_", "l", "e", "v", "e", "l", "=", "I", "N", "F", "O">> >>,
      indented_key |-> << <<" ", " ", "L", "O", "G", "_", "L", "E", "V", "E", "L", "=", "I", "N", "F", "O">> >>,
      hash_key |-> << <<"#", "L", "O", "G", "_", "L", "E", "V", "E", "L", "=", "E", "R", "R", "O", "R">>,
          << >>,
          <<"L", "O", "G", "_", "L", "E", "V", "E", "L", "=", "2">> >>,
      mixed_key |-> << <<"L", "o", "g", "_", "L", "e", "v", "e", "l", "=", "I", "N", "F", "O">> >>,
      comments_only |-> << <<"#", "L", "O", "G", "_", "L", "E", "V", "E", "L", "=", "E", "R", "R", "O", "R">>,
          << >>,
          <<"#", " ", "L", "O", "G", "_", "L", "E", "V", "E", "L", "=", "I", "N", "F", "O">> >>,
      blank_lines |-> << << >>,
          <<" ", " ", " ">>,
          <<"L", "O", "G", "_", "L", "E", "V", "E", "L", "=", "I", "N", "F", "O">> >> ]

EnvFiles == { <<KeyLine(text)>> : text \in Tokens } \cup { EnvDoc[k] : k \in DOMAIN EnvDoc }

IniDoc ==
    [ two_valid |-> << <<"L", "O", "G", "_", "L", "E", "V", "E", "L", "=", "E", "R", "R", "O", "R">>,
          <<"o", "t", "h", "e", "r", "=", "v", "a", "l", "u", "e">>,
          <<"L", "O", "G", "_", "L", "E", "V", "E", "L", "=", "I", "N", "F", "O">> >>,
      two_valid_section |-> << <<"[", "l", "o", "g", "g", "i", "n", "g", "]">>,
          <<"L", "O", "G", "_", "L", "E", "V", "E", "L", "=", "E", "R", "R", "O", "R">>,
          <<"L", "O", "G", "_", "L", "E", "V", "E", "L", "=", "I", "N", "F", "O">> >>,
      bogus_then_valid |-> << <<"L", "O", "G", "_", "L", "E", "V", "E", "L", "=", "v", "e", "r", "b", "o", "s", "e">>,
          <<"L", "O", "G", "_", "L", "E", "V", "E", "L", "=", "I", "N", "F", "O">> >>,
      bogus_then_valid_section |-> << <<"[", "L", "o", "g", "g", "i", "n", "g", "]">>,
          <<"L", "O", "G", "_", "L", "E", "V", "E", "L", "=", "v", "e", "r", "b", "o", "s", "e">>,
          <<"L", "O", "G", "_", "L", "E", "V", "E", "L", "=", "I", "N", "F", "O">> >>,
      flat_then_section |-> << <<"L", "O", "G", "_", "L", "E", "V", "E", "L", "=", "v", "e", "r", "b", "o", "s", "e">>,
          <<"[", "d", "e", "b", "u", "g", "]">>,
          <<"l", "o", "g", "_", "l", "e", "v", "e", "l", " ", "=", " ", "2">> >>,
      sections |-> << <<"[", "d", "a", "t", "a", "b", "a", "s", "e", "]">>,
          <<"h", "o", "s", "t", "=", "l", "o", "c", "a", "l", "h", "o", "s", "t">>,
          <<"[", "l", "o", "g", "g", "i", "n", "g", "]">>,
          <<"L", "O", "G", "_", "L", "E", "V", "E", "L", "=", "E", "R", "R", "O", "R">>,
          <<"[", "a", "p", "p", "l", "i", "c", "a", "t", "i", "o", "n", "]">>,
          <<"n", "a", "m", "e", "=", "t", "e", "s", "t">> >>,
      other_section |-> << <<"[", "d", "a", "t", "a", "b", "a", "s", "e", "]">>,
          <<"L", "O", "G", "_", "L", "E", "V", "E", "L", "=", "b", "o", "g", "u", "s">>,
          <<"L", "O", "G", "_", "L", "E", "V", "E", "L", "=", "W", "A", "R", "N">> >>,
      spaced |-> << <<";", " ", "s", "e", "t", "t", "i", "n", "g", "s">>,
          <<" ", " ", "L", "o", "g", "_", "L", "e", "v", "e", "l", " ", "=", " ", " ", "'", "w", "a", "r", "n", "'", " ", " ">> >>,
      no_key |-> << <<"[", "l", "o", "g", "g", "i", "n", "g", "]">>,
          <<"n", "a", "m", "e", "=", "t", "e", "s", "t">> >>,
      empty_file |-> << >>,
      flat_valid_then_section |-> << <<"L", "O", "G", "_", "L", "E", "V", "E", "L", "=", "W", "A", "R", "N">>,
          <<"[", "l", "o", "g", "g", "i", "n", "g", "]">>,
          <<"L", "O", "G", "_", "L", "E", "V", "E", "L", "=", "I", "N", "F", "O">> >>,
      section_then_flat |-> << <<"[", "l", "o", "g", "]">>,
          <<"L", "O", "G", "_", "L", "E", "V", "E", "L", "=", "I", "N", "F", "O">>,
          <<"[", "o", "t", "h", "e", "r", "]">>,
          <<"L", "O", "G", "_", "L", "E", "V", "E", "L", "=", "W", "A", "R", "N">> >>,
      bogus_flat_section |-> << <<"L", "O", "G", "_", "L", "E", "V", "E", "L", "=", "b", "o", "g", "u", "s">>,
          <<"L", "O", "G", "_", "L", "E", "V", "E", "L", "=", "W", "A", "R", "N">>,
          <<"[", "l", "o", "g", "g", "i", "n", "g", "]">>,
          <<"L", "O", "G", "_", "L", "E", "V", "E", "L", "=", "I", "N", "F", "O">> >>,
      after_bogus_logging |-> << <<"L", "O", "G", "_", "L", "E", "V", "E", "L", "=", "b", "o", "g", "u", "s">>,
          <<"[", "L", "o", "g", "g", "i", "n", "g", "]">>,
          <<"L", "O", "G", "_", "L", "E", "V", "E", "L", "=", "1">> >>,
      after_bogus_log |-> << <<"L", "O", "G", "_", "L", "E", "V", "E", "L", "=", "b", "o", "g", "u", "s">>,
          <<"[", "L", "O", "G", "]">>,
          <<"L", "O", "G", "_", "L", "E", "V", "E", "L", "=", "1">> >>,
      after_bogus_debugging |-> << <<"L", "O", "G", "_", "L", "E", "V", "E", "L", "=", "b", "o", "g", "u", "s">>,
          <<"[", "D", "E", "B", "U", "G", "G", "I", "N", "G", "]">>,
          <<"L", "O", "G", "_", "L", "E", "V", "E", "L", "=", "1">> >>,
      after_bogus_unknown |-> << <<"L", "O", "G", "_", "L", "E", "V", "E", "L", "=", "b", "o", "g", "u", "s">>,
          <<"[", "l", "o", "g", "s", "]">>,
          <<"L", "O", "G", "_", "L", "E", "V", "E", "L", "=", "1">> >>,
      unknown_section_only |-> << <<"[", "d", "a", "t", "a", "b", "a", "s", "e", "]">>,
          <<"L", "O", "G", "_", "L", "E", "V", "E", "L", "=", "W", "A", "R", "N">> >>,
      lower_key |-> << <<"l", "o", "g", "_", "l", "e", "v", "e", "l", "=", "I", "N", "F", "O">> >>,
      mixed_key |-> << <<"L", "o", "g", "_", "L", "e", "v", "e", "l", "=", "I", "N", "F", "O">> >>,
      comments |-> << <<";", "L", "O", "G", "_", "L", "E", "V", "E", "L", "=", "0">>,
          <<"#", " ", "L", "O", "G", "_", "L", "E", "V", "E", "L", "=", "I", "N", "F", "O">>,
          << >>,
          <<" ", " ", " ">>,
          <<"L", "O", "G", "_", "L", "E", "V", "E", "L", "=", "2">> >>,
      comments_only |-> << <<";", "L", "O", "G", "_", "L", "E", "V", "E", "L", "=", "0">>,
          <<"#", "L", "O", "G", "_", "L", "E", "V", "E", "L", "=", "I", "N", "F", "O">>,
          << >> >>,
      bogus_then_two_valid |-> << <<"L", "O", "G", "_", "L", "E", "V", "E", "L", "=", "b", "o", "g", "u", "s">>,
          <<"L", "O", "G", "_", "L", "E", "V", "E", "L", "=", "W", "A", "R", "N">>,
          <<"[", "o", "t", "h", "e", "r", "]">>,
          <<"L", "O", "G", "_", "L", "E", "V", "E", "L", "=", "E", "R", "R", "O", "R">> >>,
      bogus_section_gap |-> << <<"L", "O", "G", "_", "L", "E", "V", "E", "L", "=", "b", "o", "g", "u", "s">>,
          <<"[", "l", "o", "g", "]">>,
          <<"n", "a", "m", "e", "=", "t", "e", "s", "t">>,
          <<"[", "o", "t", "h", "e", "r", "]">>,
          <<"L", "O", "G", "_", "L", "E", "V", "E", "L", "=", "W", "A", "R", "N">>,
          <<"[", "d", "e", "b", "u", "g", "]">>,
          <<"L", "O", "G", "_", "L", "E", "V", "E", "L", "=", "E", "R", "R", "O", "R">> >> ]

IniFiles == { <<KeyLine(text)>> : text \in Tokens } \cup { IniDoc[k] : k \in DOMAIN IniDoc }

PathAppIni == <<"a", "p", "p", ".", "i", "n", "i">>
PathMissingEnv == <<"m", "i", "s", "s", "i", "n", "g", ".", "e", "n", "v">>
PathUpperEnv == <<"A", "P", "P", ".", "E", "N", "V">>

\* what each default source may hold when it exists
DefaultContents ==
    ( PathEnv :> { <<KeyLine(Tok.INFO)>>, <<KeyLine(Tok.TRACE)>>,
                   <<KeyLine(Tok.NONE)>>, EnvDoc.no_key } ) @@
    ( PathIni :> { <<<<"[", "l", "o", "g", "g", "i", "n", "g", "]">>, KeyLine(Tok.WARN)>> } ) @@
    ( PathConfigIni :> { <<KeyLine(Tok.n3)>>, <<KeyLine(Tok.NOT_A_LEVEL)>> } ) @@
    ( PathSettingsIni :> { <<KeyLine(Tok.lower_debug)>>, <<KeyLine(Tok.n1)>> } )

DefaultPaths == <<PathEnv, PathIni, PathConfigIni, PathSettingsIni>>

\* every choice of which default sources exist and what they hold
DefaultSourceChoices ==
    UNION { { f \in [P -> UNION { DefaultContents[p] : p \in DOMAIN DefaultContents }] :
                  \A p \in P : f[p] \in DefaultContents[p] } :
            P \in SUBSET DOMAIN DefaultContents }

\* the default sources under which the files of loadConfigFromFile are tried
OnlyConfigIni == ( PathConfigIni :> <<KeyLine(Tok.n3)>> )

\* files with a valid level under names loadConfigFromFile does not accept
OtherFiles ==
    ( PathNoExtension :> <<KeyLine(Tok.INFO)>> ) @@
    ( PathOtherExtension :> <<KeyLine(Tok.WARN)>> )

CfgFileSystems ==
    DefaultSourceChoices
    \cup { (PathAppEnv :> doc) @@ OnlyConfigIni @@ OtherFiles : doc \in EnvFiles }
    \cup { (PathAppIni :> doc) @@ OnlyConfigIni @@ OtherFiles : doc \in IniFiles }

CfgPathInputs ==
    { << >>, PathNoExtension, PathOtherExtension, PathAppEnv, PathAppIni,
      PathMissingEnv, PathMissingIni, PathUpperEnv }

(***************************************************************************)
(* One thread that constructs the logger on one of these file systems and  *)
(* loads configuration files.                                              *)
(***************************************************************************)
CfgCalls == 1

InitCfg ==
    /\ budget = CfgCalls
    /\ fs \in CfgFileSystems
    /\ Fresh

NextCfg ==
    \E t \in SeqThreads :
        \/ GetInstance(t)
        \/ Construct(t)
        \/ \E configPath \in CfgPathInputs : LoadConfig(t, configPath)
        \/ CfgLock(t)
        \/ CfgAssign(t)
        \/ CfgReturn(t)

SpecCfg == InitCfg /\ [][NextCfg]_vars

(***************************************************************************)
(* The text of one block: Logger::logInternal writes the colour codes and  *)
(* the box-drawing glyphs into its ostringstream.  A string is a sequence  *)
(* of characters; ESC is the character \033 and the three glyphs are one   *)
(* character each.                                                         *)
(***************************************************************************)
ESC == "ESC"
GlyphTop == "TOP"
GlyphMiddle == "MIDDLE"
GlyphBottom == "BOTTOM"

reset == <<ESC, "[", "0", "m">>
dim == <<ESC, "[", "9", "0", "m">>
white == <<ESC, "[", "3", "7", "m">>

getColor(level) ==
    CASE level = DEBUG -> <<ESC, "[", "3", "6", "m">>
      [] level = INFO -> <<ESC, "[", "3", "2", "m">>
      [] level = WARN -> <<ESC, "[", "3", "3", "m">>
      [] level = ERROR -> <<ESC, "[", "3", "1", "m">>
      [] OTHER -> <<ESC, "[", "0", "m">>

\* the clock is read once per block; "%Y-%m-%d %H:%M:%S"
getTimestamp == <<"2", "0", "2", "5", "-", "0", "1", "-", "0", "2", " ",
                  "0", "3", ":", "0", "4", ":", "0", "5">>

Spaces(n) == [idx \in 1..n |-> " "]

LevelColumn == Len(<<"d", "e", "b", "u", "g">>)

\* std::setw(5) << std::left: padded on the right, never cut
SetwLeft(str) ==
    IF Len(str) < LevelColumn THEN str \o Spaces(LevelColumn - Len(str)) ELSE str

\* plainPrefix = "[" + timestamp + "] " + std::string(5, ' ') + ": "
padding ==
    Spaces(Len(<<"[">> \o getTimestamp \o <<"]", " ">> \o Spaces(LevelColumn)
               \o <<":", " ">>))

\* the main line, without its "\n"
HeaderLine(color, levelName, tag, message) ==
    dim \o <<"[">> \o getTimestamp \o <<"]", " ">> \o reset
        \o color \o SetwLeft(levelName) \o reset
        \o white \o <<":">> \o reset
        \o white \o <<" ", GlyphTop, " ", "[">> \o color \o tag \o reset
        \o <<"]", " ">> \o white \o message \o reset

\* the trace line behind the given glyph, without its "\n"
TraceLine(glyph, trace) ==
    LET cleanTrace == extractFilename(trace)
        atPos == FindSub(cleanTrace, AtPrefix, 1)
    IN  IF atPos # 0
        THEN white \o padding \o <<glyph, " ">> \o AtPrefix \o dim
                 \o SubSeq(cleanTrace, atPos + 3, Len(cleanTrace)) \o reset
        ELSE white \o padding \o <<glyph, " ">> \o dim \o cleanTrace \o reset

(***************************************************************************)
(* The sinks: output destination, log file, assert.  Logger::log takes the *)
(* details as a list, renders the block once and hands it to the console   *)
(* in colour and to the log file without the colour codes.                 *)
(***************************************************************************)
LevelLabel(level) ==
    IF level = FATAL THEN <<"F", "A", "T", "A", "L">> ELSE getLevelName(level)

\* the idx-th detail line behind the given glyph, without its "\n"
DetailLine(glyph, idx, detail) ==
    white \o padding \o <<glyph, " ", "[", ToString(idx), "]", " ">> \o dim
        \o detail \o reset

\* the lines of the block in colour: header, trace, numbered details; the
\* last line carries the closing glyph
RenderText(level, tag, message, details, trace) ==
    << HeaderLine(getColor(level), LevelLabel(level), tag, message) >>
    \o (IF trace # << >>
        THEN << TraceLine(IF details = << >> THEN GlyphBottom ELSE GlyphMiddle,
                          trace) >>
        ELSE << >>)
    \o [idx \in 1..Len(details) |->
           DetailLine(IF idx = Len(details) THEN GlyphBottom ELSE GlyphMiddle,
                      idx, details[idx])]

ColourParams == {"0", "1", "2", "3", "4", "5", "6", "7", "8", "9", ";"}

\* the position of the "m" that ends the colour code starting at str[1],
\* 0 when str does not start with ESC "[" parameters "m"
ColourCodeEnd(str) ==
    IF Len(str) >= 3 /\ str[1] = ESC /\ str[2] = "["
    THEN LET ends == {idx \in 3..Len(str) :
                         /\ str[idx] = "m"
                         /\ \A jdx \in 3..(idx - 1) : str[jdx] \in ColourParams}
         IN  IF ends = {} THEN 0
             ELSE CHOOSE idx \in ends : \A jdx \in ends : idx <= jdx
    ELSE 0

\* Variant: the file gets the text as the console does.
StripAnsiKeep(str) == str

RECURSIVE StripAnsi(_)
\* the text without its colour codes, every other character kept
StripAnsi(str) ==
    IF str = << >> THEN << >>
    ELSE IF ColourCodeEnd(str) # 0
    THEN StripAnsi(SubSeq(str, ColourCodeEnd(str) + 1, Len(str)))
    ELSE <<Head(str)>> \o StripAnsi(Tail(str))

\* render(event, colorEnabled)
render(level, tag, message, details, trace, colorEnabled) ==
    LET text == RenderText(level, tag, message, details, trace)
    IN  IF colorEnabled THEN text
        ELSE [idx \in 1..Len(text) |-> StripAnsi(text[idx])]

\* Variant: with the file closed a FILE event falls back to the console.
ToConsoleFallback(destination, open) ==
    \/ destination \in {CONSOLE, BOTH}
    \/ destination = FILE /\ ~open

\* the console gets the event
ToConsole(destination, open) == destination \in {CONSOLE, BOTH}

\* the log file gets the event
ToFile(destination, open) == destination \in {FILE, BOTH} /\ open

\* the directories that exist: the working directory
Directories == { << >> }

DirectoryOf(path) == SubSeq(path, 1, FindLastOf(path, {"\\", "/"}))

\* Variant: opening creates the directories of the path.
CanOpenAnyPath(path) == TRUE

\* std::ofstream(path, std::ios::app) opens when the directory exists
CanOpenForAppend(path) == DirectoryOf(path) \in Directories

\* Variant: the file is opened with std::ios::trunc.
ContentAfterOpenTrunc(files, path) == << >>

\* what an opened file holds: append mode keeps what is there
ContentAfterOpen(files, path) ==
    IF path \in DOMAIN files THEN files[path] ELSE << >>

PathAppLog == <<"a", "p", "p", ".", "l", "o", "g">>
PathOtherLog == <<"o", "t", "h", "e", "r", ".", "l", "o", "g">>
PathNoDirectoryLog == <<"n", "o", "n", "_", "e", "x", "i", "s", "t", "e", "n", "t", "_", "d", "i", "r", "e", "c", "t", "o", "r", "y", "/", "t", "e", "s", "t", ".", "l", "o", "g">>

LogFilePathInputs == {PathAppLog, PathOtherLog, PathNoDirectoryLog}

MessageUp == <<"u", "p">>
MessageColoured == <<"r", "e", "d", " ">> \o <<ESC, "[", "3", "1", "m">> \o <<"!">>
TagNet == <<"n", "e", "t">>
TagDb == <<"d", "b">>
DetailRetry == <<"r", "e", "t", "r", "y", "=", "2">>

\* what the caller logs: a one-line event, an event with a trace and two
\* details, and an event whose message carries a colour code of its own
SinkEventInputs ==
    { [level |-> WARN, tag |-> TagNet, message |-> MessageUp,
       details |-> << >>, trace |-> << >>],
      [level |-> ERROR, tag |-> TagDb, message |-> MessageUp,
       details |-> <<DetailsInput, DetailRetry>>, trace |-> TraceInput],
      [level |-> ERROR, tag |-> TagDb, message |-> MessageColoured,
       details |-> <<DetailsInput>>, trace |-> << >>] }

\* what the caller asserts about
AssertEventInput ==
    [tag |-> TagNet, message |-> MessageUp, details |-> <<DetailsInput>>,
     trace |-> TraceInput]

\* one block as a sink holds it: the call that wrote it, its level, its lines
Block(by, ev, colorEnabled) ==
    [by |-> by, level |-> ev.level,
     text |-> render(ev.level, ev.tag, ev.message, ev.details, ev.trace,
                     colorEnabled)]

\* an event past the level check goes to the sinks the destination names
Dispatch(by, ev) ==
    /\ console' = IF ToConsole(outputDestination, fileHandle)
                  THEN Append(console, Block(by, ev, TRUE))
                  ELSE console
    /\ logFiles' = IF ToFile(outputDestination, fileHandle)
                   THEN [logFiles EXCEPT ![logFilePath] =
                            Append(@, Block(by, ev, FALSE))]
                   ELSE logFiles

(***************************************************************************)
(* Logger::setOutputDestination, getOutputDestination, setLogFile,         *)
(* closeLogFile, log and assert, each under the output lock from its       *)
(* first statement to its last; a call waits in "sink_ret" with its        *)
(* result.                                                                 *)
(***************************************************************************)
SinkCall(t, call) ==
    /\ CanCall(t)
    /\ pc' = [pc EXCEPT ![t] = "sink_ret"]
    /\ arg' = [arg EXCEPT ![t] = call]

\* Variant: changing the destination closes the log file.
SetOutputDestinationClosesFile(t, destination) ==
    /\ SinkCall(t, [op |-> "setOutputDestination", destination |-> destination])
    /\ outputDestination' = destination
    /\ fileHandle' = FALSE
    /\ UNCHANGED <<budget, opened, fs, onceFlag, instance, constructions,
                   currentLevel, levelMutex, logMutex, ref, out, ncalls, passed,
                   lastWrite, console, logFilePath, logFiles>>

SetOutputDestination(t, destination) ==
    /\ SinkCall(t, [op |-> "setOutputDestination", destination |-> destination])
    /\ outputDestination' = destination
    /\ UNCHANGED <<budget, opened, fs, onceFlag, instance, constructions,
                   currentLevel, levelMutex, logMutex, ref, out, ncalls, passed,
                   lastWrite, console, logFilePath, fileHandle, logFiles>>

GetOutputDestination(t) ==
    /\ SinkCall(t, [op |-> "getOutputDestination", result |-> outputDestination])
    /\ UNCHANGED <<budget, opened, fs, onceFlag, instance, constructions,
                   currentLevel, levelMutex, logMutex, ref, out, ncalls, passed,
                   lastWrite, console, outputDestination, logFilePath, fileHandle,
                   logFiles>>

\* closes the open file, then opens the path for appending; a failure to
\* open leaves no file open
SetLogFile(t, path) ==
    /\ SinkCall(t, [op |-> "setLogFile", path |-> path])
    /\ logFilePath' = path
    /\ fileHandle' = CanOpenForAppend(path)
    /\ logFiles' = IF CanOpenForAppend(path)
                   THEN [file \in DOMAIN logFiles \cup {path} |->
                            IF file = path THEN ContentAfterOpen(logFiles, path)
                            ELSE logFiles[file]]
                   ELSE logFiles
    /\ UNCHANGED <<budget, opened, fs, onceFlag, instance, constructions,
                   currentLevel, levelMutex, logMutex, ref, out, ncalls, passed,
                   lastWrite, console, outputDestination>>

\* Variant: closeLogFile leaves the stream as it is.
CloseLogFileKeepsOpen(t) ==
    /\ SinkCall(t, [op |-> "closeLogFile"])
    /\ UNCHANGED <<budget, opened, fs, onceFlag, instance, constructions,
                   currentLevel, levelMutex, logMutex, ref, out, ncalls, passed,
                   lastWrite, console, outputDestination, logFilePath, fileHandle,
                   logFiles>>

CloseLogFile(t) ==
    /\ SinkCall(t, [op |-> "closeLogFile"])
    /\ fileHandle' = FALSE
    /\ UNCHANGED <<budget, opened, fs, onceFlag, instance, constructions,
                   currentLevel, levelMutex, logMutex, ref, out, ncalls, passed,
                   lastWrite, console, outputDestination, logFilePath, logFiles>>

\* log(level, tag, message, details, trace)
LogEvent(t, ev) ==
    /\ SinkCall(t, [op |-> "log", ev |-> ev,
                    admitted |-> Admitted(ev.level, currentLevel)])
    /\ IF Admitted(ev.level, currentLevel)
       THEN Dispatch(CallId(t), ev)
       ELSE UNCHANGED <<console, logFiles>>
    /\ UNCHANGED <<budget, opened, fs, onceFlag, instance, constructions,
                   currentLevel, levelMutex, logMutex, ref, out, ncalls, passed,
                   lastWrite, outputDestination, logFilePath, fileHandle>>

\* Variant: assert logs its event whatever the condition.
AssertEmitsAlways(condition) == TRUE

\* assert logs its event when the condition is false
AssertEmits(condition) == ~condition

\* assert(condition, tag, message, details, trace)
LoggerAssert(t, condition, ev) ==
    /\ SinkCall(t, [op |-> "assert", condition |-> condition, ev |-> ev,
                    result |-> condition])
    /\ IF AssertEmits(condition)
            /\ Admitted(FATAL, currentLevel)
       THEN Dispatch(CallId(t),
                     [level |-> FATAL, tag |-> ev.tag, message |-> ev.message,
                      details |-> ev.details, trace |-> ev.trace])
       ELSE UNCHANGED <<console, logFiles>>
    /\ UNCHANGED <<budget, opened, fs, onceFlag, instance, constructions,
                   currentLevel, levelMutex, logMutex, ref, out, ncalls, passed,
                   lastWrite, outputDestination, logFilePath, fileHandle>>

SinkReturn(t) ==
    /\ pc[t] = "sink_ret"
    /\ Return(t)
    /\ UNCHANGED <<outputDestination, logFilePath, fileHandle, logFiles,
                   budget, opened, fs, onceFlag, instance, constructions,
                   currentLevel, levelMutex, logMutex, console, ref, out,
                   passed, lastWrite>>

SinkCalls == 5

InitSink ==
    /\ budget = SinkCalls
    /\ Start

NextSink ==
    \E t \in SeqThreads :
        \/ GetInstance(t)
        \/ Construct(t)
        \/ \E destination \in OutputDestinations :
               SetOutputDestination(t, destination)
        \/ GetOutputDestination(t)
        \/ \E path \in LogFilePathInputs : SetLogFile(t, path)
        \/ CloseLogFile(t)
        \/ \E ev \in SinkEventInputs : LogEvent(t, ev)
        \/ \E condition \in BOOLEAN :
               LoggerAssert(t, condition, AssertEventInput)
        \/ SinkReturn(t)

SpecSink == InitSink /\ [][NextSink]_vars

(***************************************************************************)
(* One thread that logs one event: every level of LogLevel, with and       *)
(* without details, and traces over directory prefixes with either         *)
(* separator, with a drive letter, and without a directory.                *)
(***************************************************************************)
FmtLevelInputs == {DEBUG, INFO, WARN, ERROR}

FmtDirectories ==
    { << >>, <<"s", "r", "c", "/">>, <<"s", "r", "c", "/", "n", "e", "t", "/">>,
      <<"s", "r", "c", "\\", "n", "e", "t", "\\">>,
      <<"C", ":", "\\", "s", "r", "c", "\\">>, <<"C", ":", "/", "s", "r", "c", "/">>,
      <<"a", "/", "b", "\\">>, <<"/">> }
FmtFiles == { <<"i", "o", ".", "c", "p", "p">>, <<"m", "a", "i", "n">> }
FmtSuffixes ==
    { <<":", "7", " ", "[", "r", "u", "n", "]">>,
      <<":", "4", "2", " ", "[", "N", "e", "t", ":", ":", "s", "e", "n", "d", "]">> }

TraceOf(directory, file, suffix) == AtPrefix \o directory \o file \o suffix

TraceNoAt == <<"s", "r", "c", "/", "i", "o", ".", "c", "p", "p", ":", "7">>
TraceNoColon == <<"a", "t", " ", "s", "r", "c", "/", "i", "o", ".", "c", "p", "p">>

FmtTraceInputs ==
    { TraceOf(directory, file, suffix) :
          directory \in FmtDirectories, file \in FmtFiles,
          suffix \in FmtSuffixes }
    \cup { << >>, TraceNoAt, TraceNoColon }

\* no configuration file: the threshold stays DEBUG
NoFiles == << >>

FmtCalls == 1

InitFmt ==
    /\ budget = FmtCalls
    /\ fs \in {NoFiles, FsIni}
    /\ Fresh

NextFmt ==
    \E t \in SeqThreads :
        \/ GetInstance(t)
        \/ Construct(t)
        \/ \E level \in FmtLevelInputs, trace \in FmtTraceInputs,
              details \in {<< >>, DetailsInput} :
               Log(t, level, trace, details)
        \/ LogLevelLock(t)
        \/ LogGate(t)
        \/ LogSkip(t)
        \/ LogLock(t)
        \/ LogWrite(t)
        \/ LogFlush(t)

SpecFmt == InitFmt /\ [][NextFmt]_vars

(***************************************************************************)
(* The threads under a fair scheduler: a thread that can take the next     *)
(* step of the call it is in takes it eventually.  Starting a call is the  *)
(* caller's choice and carries no fairness, and none is needed for         *)
(* getInstance, which no call on the logger waits for.                     *)
(***************************************************************************)
LiveCalls == 1

InitLive ==
    /\ budget = LiveCalls
    /\ Start

\* the steps inside setLogLevel, getLogLevel, logInternal and
\* loadConfigFromFile
ThreadStep(t) ==
    \/ SetLock(t)
    \/ SetAssign(t)
    \/ GetLock(t)
    \/ GetRead(t)
    \/ GetReturn(t)
    \/ LogLevelLock(t)
    \/ LogGate(t)
    \/ LogSkip(t)
    \/ LogLock(t)
    \/ LogWrite(t)
    \/ LogFlush(t)
    \/ CfgLock(t)
    \/ CfgAssign(t)
    \/ CfgReturn(t)

SpecLive ==
    /\ InitLive
    /\ [][Next]_vars
    /\ \A t \in Threads : WF_vars(ThreadStep(t))

Spec == Init /\ [][Next]_vars

(***************************************************************************)
(* Properties.                                                             *)
(***************************************************************************)
\* the console lines written by one call, in console order
Written(by) == SelectSeq(console, LAMBDA e : e.by = by)

\* the block the log call thread t is in must leave on the console
BlockOf(t) ==
    LET block == RenderBlock(arg[t].level, arg[t].tag, arg[t].message,
                             arg[t].details, arg[t].trace)
    IN  [idx \in 1..Len(block) |-> [by |-> CallId(t), line |-> block[idx]]]

Headers == SelectSeq(console, LAMBDA e : e.line.kind = "header")

HeadersOf(t) == SelectSeq(Headers, LAMBDA e : e.by[1] = t)

\* thread t is in a log call that has made its level check
PastGate(t) == pc[t] \in {"log_skip", "log_lock", "log_write"}

\* thread t is in a log call that has written all it writes and not returned
WriteDone(t) == pc[t] = "log_write" /\ out[t] = << >>

\* C1: a log call leaves its block on the console if and only if its level
\* was not below the threshold its level check read; a call whose level was
\* below it leaves no line at all.
LevelFilter ==
    \A t \in Threads :
        /\ pc[t] = "log_skip" =>
               /\ arg[t].level < arg[t].seen
               /\ Written(CallId(t)) = << >>
        /\ pc[t] \in {"log_lock", "log_write"} => arg[t].level >= arg[t].seen
        /\ WriteDone(t) => Written(CallId(t)) = BlockOf(t)

\* a thread whose first call left a block has its second call filtered out
LevelFilterWitness ==
    \E t \in Threads :
        /\ pc[t] = "log_skip"
        /\ ncalls[t] = 1
        /\ Written(<<t, 1>>) # << >>

\* C2: the constructor runs at most once, and every reference getInstance
\* has returned, to a concurrent first caller or a later one, is the one
\* instance.
SingleInstance ==
    /\ constructions <= 1
    /\ \A t \in Threads :
           ref[t] # 0 =>
               /\ onceFlag = "done"
               /\ constructions = 1
               /\ ref[t] = instance
    /\ \A t, u \in Threads : (ref[t] # 0 /\ ref[u] # 0) => ref[t] = ref[u]

\* the construction has run and its caller holds the instance, while a
\* concurrent first caller is still inside getInstance
SingleInstanceWitness ==
    \E t, u \in Threads :
        /\ t # u
        /\ constructions = 1
        /\ ref[t] = instance
        /\ ref[t] # 0
        /\ pc[u] = "once_wait"

\* C3: the lines of one call are contiguous on the console: no line of
\* another call lies between two lines of the same call.
BlocksContiguous ==
    \A i, j \in 1..Len(console) :
        (i < j /\ console[i].by = console[j].by) =>
            \A k \in i..j : console[k].by = console[i].by

\* one thread is in the middle of its block while another, past its level
\* check, waits for the output lock
BlocksContiguousWitness ==
    \E t, u \in Threads :
        /\ t # u
        /\ pc[t] = "log_write"
        /\ Len(out[t]) = 1
        /\ Len(Written(CallId(t))) = 2
        /\ pc[u] = "log_lock"
        /\ arg[u].details # << >>

\* C4: the blocks of one thread appear on the console in the order of its
\* calls.
ProgramOrder ==
    \A i, j \in 1..Len(console) :
        (i < j /\ console[i].by[1] = console[j].by[1]) =>
            console[i].by[2] <= console[j].by[2]

\* two blocks of one thread with a block of another thread between them
ProgramOrderWitness ==
    \E i, j, k \in 1..Len(console) :
        /\ i < k
        /\ k < j
        /\ console[i].by[1] = console[j].by[1]
        /\ console[i].by[2] < console[j].by[2]
        /\ console[k].by[1] # console[i].by[1]

\* C5: no admitted call's block is lost and none is written twice: when a
\* thread is between calls the console holds one header per call of it that
\* passed the level check, no call has two headers, and once every thread
\* has made MaxCalls admitted log calls the console holds NumThreads *
\* MaxCalls blocks.
NoBlockLostOrDoubled ==
    /\ \A t \in Threads : pc[t] = "idle" => Len(HeadersOf(t)) = passed[t]
    /\ \A i, j \in 1..Len(Headers) : i < j => Headers[i].by # Headers[j].by
    /\ (\A t \in Threads : pc[t] = "idle" /\ passed[t] = MaxCalls) =>
           Len(Headers) = NumThreads * MaxCalls

AllAdmitted ==
    /\ \A t \in Threads : pc[t] = "idle" /\ passed[t] = MaxCalls
    /\ Len(Headers) = NumThreads * MaxCalls
    /\ \E i \in 1..(Len(console) - 1) : console[i].by[1] # console[i + 1].by[1]

\* C6: a thread holds the level lock only at the comparison or the
\* assignment of currentLevel, never together with the output lock and never
\* while it writes; so the thread inside the render-and-write section is
\* never the one a setLogLevel or getLogLevel waits for.
LevelLockScope ==
    \A t \in Threads :
        /\ levelMutex = t =>
               /\ pc[t] \in {"set_assign", "get_read", "log_gate", "cfg_assign"}
               /\ logMutex # t
        /\ (logMutex = t \/ pc[t] \in {"log_lock", "log_write"}) => levelMutex # t

\* a setLogLevel holds the level lock while another thread is writing a block
LevelLockScopeWitness ==
    \E t, u \in Threads :
        /\ t # u
        /\ logMutex = u
        /\ pc[u] = "log_write"
        /\ out[u] # << >>
        /\ Written(CallId(u)) # << >>
        /\ levelMutex = t
        /\ pc[t] = "set_assign"

\* C7: the level is not looked at again after the check: a call that passed
\* its check has its whole block on the console when it is about to return
\* although the threshold is by then above its level, and a call that failed
\* its check has written nothing and returns although the threshold is by
\* then at or below its level.
GateNotRepeated ==
    \A t \in Threads :
        /\ (WriteDone(t) /\ arg[t].level < currentLevel) =>
               Written(CallId(t)) = BlockOf(t)
        /\ (pc[t] = "log_skip" /\ arg[t].level >= currentLevel) =>
               /\ Written(CallId(t)) = << >>
               /\ ENABLED LogSkip(t)

\* thread t passed its check in its first call; u then raised the threshold
\* above t's level and wrote a block of its own; t's block follows it
GateNotRepeatedWitness ==
    \E t, u \in Threads :
        /\ t # u
        /\ WriteDone(t)
        /\ ncalls[t] = 0
        /\ arg[t].level < currentLevel
        /\ \E i, j \in 1..Len(console) :
               /\ i < j
               /\ console[i].by = <<u, 2>>
               /\ console[j].by = <<t, 1>>
               /\ console[j].line.kind = "header"

\* C8: a log call whose level is below the threshold returns without the
\* output lock, without rendering, and with the level, the sink and every
\* other part of the logger as they were; it does not wait for the output
\* lock, whoever holds it.
FilteredCallInert ==
    /\ [](\A t \in Threads :
             pc[t] = "log_skip" =>
                 /\ logMutex # t
                 /\ levelMutex # t
                 /\ out[t] = << >>
                 /\ Written(CallId(t)) = << >>
                 /\ ENABLED LogSkip(t))
    /\ [][\A t \in Threads :
             (\/ (pc[t] = "log_gate" /\ arg[t].level < currentLevel
                    /\ pc'[t] # "log_gate")
              \/ (pc[t] = "log_skip" /\ pc'[t] # "log_skip")) =>
                 /\ pc'[t] \in {"log_skip", "idle"}
                 /\ levelMutex' # t
                 /\ UNCHANGED <<fs, opened, onceFlag, instance, constructions,
                                currentLevel, lastWrite, logMutex, console,
                                out, ref, passed, outputDestination,
                                logFilePath, fileHandle, logFiles>>]_vars

\* a filtered call is about to return while another thread holds the output
\* lock in the middle of its block
FilteredCallInertWitness ==
    \E t, u \in Threads :
        /\ t # u
        /\ pc[t] = "log_skip"
        /\ logMutex = u
        /\ out[u] # << >>

\* C9: a call whose level check read the threshold NONE is filtered out
\* whatever its severity, and a call whose level check read DEBUG is
\* admitted whatever its severity and leaves its block.
ThresholdExtremes ==
    \A t \in Threads :
        PastGate(t) =>
            /\ arg[t].seen = NONE =>
                   /\ pc[t] = "log_skip"
                   /\ Written(CallId(t)) = << >>
            /\ arg[t].seen = DEBUG =>
                   /\ pc[t] # "log_skip"
                   /\ WriteDone(t) => Written(CallId(t)) = BlockOf(t)

\* a DEBUG call under the threshold DEBUG left its block, then the
\* threshold was set to NONE and a FATAL call is filtered out
ThresholdExtremesWitness ==
    \E t \in Threads :
        /\ pc[t] = "log_skip"
        /\ arg[t].seen = NONE
        /\ arg[t].level = FATAL
        /\ Written(<<t, 1>>) # << >>
        /\ Written(<<t, 1>>)[1].line.level = DEBUG

\* C10: setLogLevel has one way out, the assignment, which nothing stops;
\* and with no level write in between getLogLevel returns the level handed
\* to the last level write, for every level.
SetThenGet ==
    \A t \in Threads :
        /\ pc[t] = "set_assign" => ENABLED SetAssign(t)
        /\ pc[t] = "get_ret" => arg[t].result = lastWrite
        /\ pc[t] = "idle" => currentLevel = lastWrite

\* getLogLevel is about to return NONE, which only setLogLevel(NONE) stores
SetThenGetWitness ==
    \E t \in Threads :
        /\ pc[t] = "get_ret"
        /\ arg[t].result = NONE
        /\ lastWrite = NONE

(***************************************************************************)
(* Configuration resolution.                                               *)
(***************************************************************************)
\* the logger has been constructed and no call has been made on it yet
JustConstructed ==
    /\ constructions = 1
    /\ \A t \in Threads : pc[t] = "idle" /\ ncalls[t] = 0

\* the level each default-source text stands for, where it stands for one
DefaultYield ==
    ( <<KeyLine(Tok.INFO)>> :> INFO ) @@
    ( << <<"[", "l", "o", "g", "g", "i", "n", "g", "]">>, KeyLine(Tok.WARN) >> :> WARN ) @@
    ( <<KeyLine(Tok.n3)>> :> ERROR ) @@
    ( <<KeyLine(Tok.lower_debug)>> :> DEBUG ) @@
    ( <<KeyLine(Tok.n1)>> :> INFO )

\* the k-th default source exists and holds a valid level
Yields(k) ==
    /\ DefaultPaths[k] \in DOMAIN fs
    /\ fs[DefaultPaths[k]] \in DOMAIN DefaultYield

\* C11: when no default source yields a valid level, each being missing or
\* without a valid LOG_LEVEL, the threshold after construction is DEBUG.
FallbackIsDebug ==
    (JustConstructed /\ \A k \in DOMAIN DefaultPaths : ~Yields(k)) =>
        currentLevel = DEBUG

\* constructed with an .env and a config.ini that exist but hold no valid
\* level, and no other source
FallbackIsDebugWitness ==
    /\ JustConstructed
    /\ DOMAIN fs = {PathEnv, PathConfigIni}
    /\ fs[PathEnv] = <<KeyLine(Tok.TRACE)>>
    /\ fs[PathConfigIni] = <<KeyLine(Tok.NOT_A_LEVEL)>>
    /\ currentLevel = DEBUG

\* C12: the default sources are tried in the order .env, .ini, config.ini,
\* settings.ini; the threshold after construction is the level of the first
\* one that yields a valid level, the sources before it were all opened,
\* and the sources after it were not.
FirstValidSourceWins ==
    JustConstructed =>
        \A k \in DOMAIN DefaultPaths :
            (Yields(k) /\ \A j \in 1..(k - 1) : ~Yields(j)) =>
                /\ currentLevel = DefaultYield[fs[DefaultPaths[k]]]
                /\ opened = SubSeq(DefaultPaths, 1, k)

\* an .env without a valid level did not stop the search, config.ini gave
\* the level, and settings.ini, which holds another level, was not opened
FirstValidSourceWinsWitness ==
    /\ JustConstructed
    /\ DOMAIN fs = {PathEnv, PathConfigIni, PathSettingsIni}
    /\ fs[PathEnv] = <<KeyLine(Tok.TRACE)>>
    /\ fs[PathConfigIni] = <<KeyLine(Tok.n3)>>
    /\ fs[PathSettingsIni] = <<KeyLine(Tok.n1)>>
    /\ currentLevel = ERROR
    /\ opened = <<PathEnv, PathIni, PathConfigIni>>

\* thread t is in a loadConfigFromFile call, given the positions p and the
\* arguments a
InLoad(p, a, t) == p[t] \in {"cfg_lock", "cfg_assign", "cfg_ret"}

\* ... and the call is on an existing .env or .ini file whose text is one
\* of docs
LoadsOneOf(p, a, t, docs) ==
    /\ InLoad(p, a, t)
    /\ a[t].path \in {PathAppEnv, PathAppIni}
    /\ a[t].path \in DOMAIN fs
    /\ fs[a[t].path] \in docs

\* the level the threshold had when the logger was constructed on a file
\* system whose only default source is config.ini
ConstructedLevel == ERROR

\* C13: within one file the last valid occurrence of the key wins: after
\* loading a file with LOG_LEVEL=ERROR and later LOG_LEVEL=INFO the
\* threshold is INFO.
LastValidWins ==
    \A t \in Threads :
        (pc[t] = "cfg_ret"
           /\ LoadsOneOf(pc, arg, t, {EnvDoc.two_valid, IniDoc.two_valid_section})) =>
            /\ arg[t].ok
            /\ currentLevel = INFO

\* the level each file asks for in its valid key line, which follows an
\* invalid one
LaterValid ==
    ( EnvDoc.bogus_then_valid :> INFO ) @@
    ( EnvDoc.invalid_then_valid :> WARN ) @@
    ( IniDoc.bogus_then_valid_section :> INFO ) @@
    ( IniDoc.flat_then_section :> WARN )

\* C14: a key line with an unrecognised value is skipped and the scan goes
\* on: a file whose first key line is invalid and which has a later valid
\* key line sets the threshold to the later value, in both formats.
InvalidLineSkipped ==
    \A t \in Threads :
        (pc[t] = "cfg_ret" /\ LoadsOneOf(pc, arg, t, DOMAIN LaterValid)) =>
            /\ arg[t].ok
            /\ currentLevel = LaterValid[fs[arg[t].path]]

\* files whose only key line has an invalid or empty value
InvalidOnlyDocs ==
    { <<KeyLine(Tok[k])>> :
        k \in {"empty", "blanks", "quotes_only", "n5", "n01", "NONE", "TRACE",
               "NOT_A_LEVEL", "warnin", "inner_quote", "inner_space",
               "commented"} }

\* C15: loading a file whose only key line has an invalid or empty value
\* returns false without reaching the assignment, and no step of the call
\* changes the threshold.
InvalidValueKeepsLevel ==
    /\ [](\A t \in Threads :
             LoadsOneOf(pc, arg, t, InvalidOnlyDocs) =>
                 /\ pc[t] = "cfg_ret"
                 /\ ~arg[t].ok)
    /\ [][\A t \in Threads :
             (\/ LoadsOneOf(pc, arg, t, InvalidOnlyDocs)
              \/ LoadsOneOf(pc', arg', t, InvalidOnlyDocs)) =>
                 currentLevel' = currentLevel]_vars

\* app.env holds only LOG_LEVEL=NOT_A_LEVEL; the call is about to return
\* false and the threshold is the one construction set
InvalidValueKeepsLevelWitness ==
    \E t \in Threads :
        /\ pc[t] = "cfg_ret"
        /\ arg[t].path = PathAppEnv
        /\ PathAppEnv \in DOMAIN fs
        /\ fs[PathAppEnv] = <<KeyLine(Tok.NOT_A_LEVEL)>>
        /\ ~arg[t].ok
        /\ currentLevel = ConstructedLevel

\* C16: loadConfigFromFile returns true exactly when the file at the path
\* could be opened, whether or not it holds a valid level.
ReturnsReadable ==
    \A t \in Threads :
        pc[t] = "cfg_ret" => (arg[t].ok <=> arg[t].path \in DOMAIN fs)

\* C17: loading a path that cannot be opened returns false without reaching
\* the assignment, and no step of the call changes the threshold.
MissingFileKeepsLevel ==
    /\ [](\A t \in Threads :
             (InLoad(pc, arg, t) /\ arg[t].path \notin DOMAIN fs) =>
                 /\ pc[t] = "cfg_ret"
                 /\ ~arg[t].ok)
    /\ [][\A t \in Threads :
             (\/ InLoad(pc, arg, t) /\ arg[t].path \notin DOMAIN fs
              \/ InLoad(pc', arg', t) /\ arg'[t].path \notin DOMAIN fs) =>
                 currentLevel' = currentLevel]_vars

\* missing.ini was handed to std::ifstream, could not be opened, and the call
\* is about to return false with the threshold construction set
MissingFileKeepsLevelWitness ==
    \E t \in Threads :
        /\ pc[t] = "cfg_ret"
        /\ arg[t].path = PathMissingIni
        /\ opened = <<PathMissingIni>>
        /\ ~arg[t].ok
        /\ currentLevel = ConstructedLevel
        /\ PathConfigIni \in DOMAIN fs

\* paths loadConfigFromFile turns down by their shape
RefusedPaths == { << >>, PathNoExtension, PathOtherExtension }

\* C18: with an empty path, a path without extension or a path whose
\* extension is neither .env nor .ini, loadConfigFromFile returns false, has
\* opened no file, and no step of the call changes the threshold.
RefusedPathKeepsLevel ==
    /\ [](\A t \in Threads :
             (InLoad(pc, arg, t) /\ arg[t].path \in RefusedPaths) =>
                 /\ pc[t] = "cfg_ret"
                 /\ ~arg[t].ok
                 /\ opened = << >>)
    /\ [][\A t \in Threads :
             (\/ InLoad(pc, arg, t) /\ arg[t].path \in RefusedPaths
              \/ InLoad(pc', arg', t) /\ arg'[t].path \in RefusedPaths) =>
                 currentLevel' = currentLevel]_vars

\* notes.txt exists and holds a valid level; the call on it is about to
\* return false, nothing was opened, the threshold is the constructed one
RefusedPathKeepsLevelWitness ==
    \E t \in Threads :
        /\ pc[t] = "cfg_ret"
        /\ arg[t].path = PathOtherExtension
        /\ PathOtherExtension \in DOMAIN fs
        /\ ~arg[t].ok
        /\ opened = << >>
        /\ currentLevel = ConstructedLevel

\* the tokens the parser is to accept, with their levels
ClaimedLevel ==
    [ DEBUG |-> DEBUG, INFO |-> INFO, WARN |-> WARN, WARNING |-> WARN,
      ERROR |-> ERROR, ERR |-> ERROR, FATAL |-> FATAL,
      n0 |-> DEBUG, n1 |-> INFO, n2 |-> WARN, n3 |-> ERROR, n4 |-> FATAL,
      lower_debug |-> DEBUG, mixed_info |-> INFO, lower_fatal |-> FATAL ]

\* tokens the parser is to reject
ClaimedRejected ==
    {"empty", "blanks", "quotes_only", "n5", "n01", "NONE", "TRACE",
     "NOT_A_LEVEL", "warnin", "inner_quote", "inner_space", "commented"}

\* C19: the parser accepts exactly DEBUG, INFO, WARN, WARNING, ERROR, ERR,
\* FATAL and 0, 1, 2, 3, 4, in any case, with the levels DEBUG, INFO, WARN,
\* WARN, ERROR, ERROR, FATAL and DEBUG, INFO, WARN, ERROR, FATAL, and
\* rejects every other token.
TokenTable ==
    \A t \in Threads : \A k \in DOMAIN Tok :
        (pc[t] = "cfg_ret" /\ LoadsOneOf(pc, arg, t, {<<KeyLine(Tok[k])>>})) =>
            /\ k \in DOMAIN ClaimedLevel =>
                   (arg[t].ok /\ currentLevel = ClaimedLevel[k])
            /\ k \in ClaimedRejected => ~arg[t].ok

\* C20 as stated: one layer of matching quotes is stripped, so "WARNING" and
\* 'info' with trailing spaces are accepted, and a value with two layers of
\* quotes or with unmatched quotes is not reduced to a valid token.
OneQuoteLayer ==
    \A t \in Threads :
        pc[t] = "cfg_ret" =>
            /\ LoadsOneOf(pc, arg, t, {<<KeyLine(Tok.dq_warning)>>}) =>
                   (arg[t].ok /\ currentLevel = WARN)
            /\ LoadsOneOf(pc, arg, t, {<<KeyLine(Tok.sq_info_sp)>>}) =>
                   (arg[t].ok /\ currentLevel = INFO)
            /\ LoadsOneOf(pc, arg, t, {<<KeyLine(Tok.dq2_debug)>>,
                                       <<KeyLine(Tok.mixed_quotes)>>,
                                       <<KeyLine(Tok.open_quote)>>}) =>
                   ~arg[t].ok

\* the level each quoted or padded value is reduced to
Normalised ==
    [ dq_warning |-> WARN, sq_info_sp |-> INFO, sp_error |-> ERROR,
      dq2_debug |-> DEBUG, mixed_quotes |-> DEBUG, open_quote |-> DEBUG ]

\* C20: normalisation removes every leading and trailing whitespace and
\* quote character, of either kind, in any number, matched or not, and
\* uppercases: "WARNING", 'info' with trailing spaces, ""DEBUG"", "DEBUG'
\* and "DEBUG are all accepted; a quote or a space inside the token is not
\* removed and a value of quotes only is rejected.
SurroundingQuotesStripped ==
    \A t \in Threads :
        pc[t] = "cfg_ret" =>
            /\ \A k \in DOMAIN Normalised :
                   LoadsOneOf(pc, arg, t, {<<KeyLine(Tok[k])>>}) =>
                       (arg[t].ok /\ currentLevel = Normalised[k])
            /\ LoadsOneOf(pc, arg, t, {<<KeyLine(Tok.inner_quote)>>,
                                       <<KeyLine(Tok.inner_space)>>,
                                       <<KeyLine(Tok.quotes_only)>>}) =>
                   ~arg[t].ok

\* app.ini holds LOG_LEVEL=""DEBUG""; the call is about to return true and
\* the threshold went from the constructed level to DEBUG
SurroundingQuotesStrippedWitness ==
    \E t \in Threads :
        /\ pc[t] = "cfg_ret"
        /\ arg[t].path = PathAppIni
        /\ PathAppIni \in DOMAIN fs
        /\ fs[PathAppIni] = <<KeyLine(Tok.dq2_debug)>>
        /\ arg[t].ok
        /\ currentLevel = DEBUG
        /\ lastWrite = DEBUG

\* thread t is in a loadConfigFromFile call on the existing file at path,
\* whose text is one of docs
LoadsAt(p, a, t, path, docs) ==
    /\ InLoad(p, a, t)
    /\ a[t].path = path
    /\ path \in DOMAIN fs
    /\ fs[path] \in docs

IniSectionLevel ==
    ( IniDoc.after_bogus_logging :> INFO ) @@
    ( IniDoc.after_bogus_log :> INFO ) @@
    ( IniDoc.after_bogus_debugging :> INFO ) @@
    ( IniDoc.flat_then_section :> WARN ) @@
    ( IniDoc.sections :> ERROR ) @@
    ( IniDoc.unknown_section_only :> WARN ) @@
    ( IniDoc.section_then_flat :> INFO ) @@
    ( IniDoc.flat_valid_then_section :> WARN ) @@
    ( IniDoc.bogus_flat_section :> INFO )

KeyCaseSensitive ==
    \A t \in Threads :
        (\/ LoadsAt(pc, arg, t, PathAppEnv, {EnvDoc.lower_key, EnvDoc.mixed_key})
         \/ LoadsAt(pc, arg, t, PathAppIni, {IniDoc.lower_key, IniDoc.mixed_key})) =>
            /\ pc[t] = "cfg_ret"
            /\ ~arg[t].ok

\* C22: the key is matched case-sensitively in an .env file and in any case
\* in an .ini file: log_level=INFO and Log_Level=INFO in an .env file are
\* not recognised and the call never reaches the assignment; in an .ini
\* file they set the level to INFO.
KeyCaseByFormat ==
    \A t \in Threads :
        /\ LoadsAt(pc, arg, t, PathAppEnv, {EnvDoc.lower_key, EnvDoc.mixed_key}) =>
               /\ pc[t] = "cfg_ret"
               /\ ~arg[t].ok
        /\ (pc[t] = "cfg_ret"
              /\ LoadsAt(pc, arg, t, PathAppIni, {IniDoc.lower_key, IniDoc.mixed_key})) =>
               /\ arg[t].ok
               /\ currentLevel = INFO

\* app.ini holds Log_Level=INFO; the load is about to return true and the
\* level went from the constructed one to INFO
KeyCaseByFormatWitness ==
    \E t \in Threads :
        /\ pc[t] = "cfg_ret"
        /\ LoadsAt(pc, arg, t, PathAppIni, {IniDoc.mixed_key})
        /\ arg[t].ok
        /\ currentLevel = INFO
        /\ lastWrite = INFO

\* the level each file with comment and blank lines sets
EnvCommentedLevel ==
    ( EnvDoc.hash_key :> WARN ) @@
    ( EnvDoc.commented :> INFO ) @@
    ( EnvDoc.blank_lines :> INFO )

IniCommentedLevel ==
    ( IniDoc.comments :> WARN ) @@
    ( IniDoc.spaced :> WARN )

\* C23: comment lines and blank lines do not affect a load: a line that
\* begins with # in .env, or with # or ; in .ini, is ignored even when the
\* rest reads LOG_LEVEL=<level>, and empty lines do not stop the scan: the
\* level is that of the key line after them, and a file of comments and
\* blank lines only yields no level.
CommentsAndBlanksIgnored ==
    \A t \in Threads :
        /\ pc[t] = "cfg_ret" =>
               /\ LoadsAt(pc, arg, t, PathAppEnv, DOMAIN EnvCommentedLevel) =>
                      (arg[t].ok /\ currentLevel = EnvCommentedLevel[fs[PathAppEnv]])
               /\ LoadsAt(pc, arg, t, PathAppIni, DOMAIN IniCommentedLevel) =>
                      (arg[t].ok /\ currentLevel = IniCommentedLevel[fs[PathAppIni]])
        /\ (\/ LoadsAt(pc, arg, t, PathAppEnv, {EnvDoc.comments_only})
            \/ LoadsAt(pc, arg, t, PathAppIni, {IniDoc.comments_only})) =>
               /\ pc[t] = "cfg_ret"
               /\ ~arg[t].ok

\* app.env is #LOG_LEVEL=ERROR, an empty line, LOG_LEVEL=2; the load is
\* about to return true with the level WARN
CommentsAndBlanksIgnoredWitness ==
    \E t \in Threads :
        /\ pc[t] = "cfg_ret"
        /\ LoadsAt(pc, arg, t, PathAppEnv, {EnvDoc.hash_key})
        /\ arg[t].ok
        /\ currentLevel = WARN
        /\ lastWrite = WARN

\* the blocks one call left in the log file at path
FileWritten(path, by) ==
    IF path \in DOMAIN logFiles
    THEN SelectSeq(logFiles[path], LAMBDA e : e.by = by)
    ELSE << >>

\* the paths of the log files that hold a block of the call
FilesHolding(by) == {path \in DOMAIN logFiles : FileWritten(path, by) # << >>}

\* thread t is about to return from the named call
Returning(t, op) == pc[t] = "sink_ret" /\ arg[t].op = op

\* C24: an admitted log call leaves one block on the console iff the
\* destination is CONSOLE or BOTH, and one block in the log file iff the
\* destination is FILE or BOTH and a file is open; with NONE it writes
\* nowhere, and with FILE and no open file it writes nowhere either.
DestinationSelectsSinks ==
    \A t \in Threads :
        (Returning(t, "log") /\ arg[t].admitted) =>
            /\ Len(Written(CallId(t))) =
                   (IF outputDestination \in {CONSOLE, BOTH} THEN 1 ELSE 0)
            /\ IF outputDestination \in {FILE, BOTH} /\ fileHandle
               THEN /\ FilesHolding(CallId(t)) = {logFilePath}
                    /\ Len(FileWritten(logFilePath, CallId(t))) = 1
               ELSE FilesHolding(CallId(t)) = {}
            /\ outputDestination = NO_OUTPUT =>
                   Written(CallId(t)) = << >> /\ FilesHolding(CallId(t)) = {}
            /\ (outputDestination = FILE /\ ~fileHandle) =>
                   Written(CallId(t)) = << >> /\ FilesHolding(CallId(t)) = {}

\* an admitted call returns with destination FILE and no file open, after
\* an earlier call wrote to the console
DestinationSelectsSinksWitness ==
    \E t \in Threads :
        /\ Returning(t, "log")
        /\ arg[t].admitted
        /\ outputDestination = FILE
        /\ ~fileHandle
        /\ console # << >>

UnopenablePathLeavesNoFile ==
    /\ [](\A t \in Threads :
             /\ (Returning(t, "setLogFile")
                   /\ arg[t].path = PathNoDirectoryLog) =>
                    /\ ~fileHandle
                    /\ PathNoDirectoryLog \notin DOMAIN logFiles
                    /\ ENABLED SinkReturn(t)
             /\ (Returning(t, "log") /\ outputDestination = FILE
                   /\ ~fileHandle) =>
                    /\ Written(CallId(t)) = << >>
                    /\ FilesHolding(CallId(t)) = {}
                    /\ ENABLED SinkReturn(t))
    /\ [][\A t \in Threads :
             /\ (pc[t] = "idle" /\ pc'[t] = "sink_ret"
                   /\ arg'[t].op = "setLogFile"
                   /\ arg'[t].path = PathNoDirectoryLog) =>
                    logFiles' = logFiles /\ console' = console
             /\ (pc[t] = "idle" /\ pc'[t] = "sink_ret" /\ arg'[t].op = "log"
                   /\ outputDestination = FILE /\ ~fileHandle) =>
                    logFiles' = logFiles /\ console' = console]_vars

\* a FILE log call returns after setLogFile failed on the unopenable path,
\* while the file that had been open before holds an earlier block
UnopenablePathLeavesNoFileWitness ==
    \E t \in Threads :
        /\ Returning(t, "log")
        /\ arg[t].admitted
        /\ outputDestination = FILE
        /\ logFilePath = PathNoDirectoryLog
        /\ ~fileHandle
        /\ PathAppLog \in DOMAIN logFiles
        /\ logFiles[PathAppLog] # << >>

\* thread t makes the named call in this step
Calls(t, op) == pc[t] = "idle" /\ pc'[t] = "sink_ret" /\ arg'[t].op = op

\* C27: the handle is open iff the most recent setLogFile or closeLogFile
\* call was a setLogFile that opened its file: a setLogFile leaves it open
\* exactly when its path can be opened, a closeLogFile leaves it closed, and
\* no other step changes it; a closeLogFile with no file open changes
\* nothing and returns normally.
HandleFollowsLastFileCall ==
    /\ [](\A t \in Threads :
             Returning(t, "closeLogFile") =>
                 ~fileHandle /\ ENABLED SinkReturn(t))
    /\ [][/\ \A t \in Threads :
              /\ Calls(t, "setLogFile") =>
                     (fileHandle' <=> arg'[t].path # PathNoDirectoryLog)
              /\ Calls(t, "closeLogFile") => ~fileHandle'
              /\ (Calls(t, "closeLogFile") /\ ~fileHandle) =>
                     UNCHANGED <<console, logFiles, outputDestination,
                                 logFilePath, fileHandle, currentLevel>>
         /\ (\A t \in Threads :
                ~(Calls(t, "setLogFile") \/ Calls(t, "closeLogFile"))) =>
                fileHandle' = fileHandle]_vars

\* closeLogFile returns after it closed a file that holds a block
HandleFollowsLastFileCallWitness ==
    \E t \in Threads :
        /\ Returning(t, "closeLogFile")
        /\ ~fileHandle
        /\ logFilePath \in DOMAIN logFiles
        /\ logFiles[logFilePath] # << >>

IsPrefix(short, long) ==
    Len(short) <= Len(long) /\ SubSeq(long, 1, Len(short)) = short

\* C28: the log file is opened for appending: no step removes a file or
\* shortens or reorders what it holds, setLogFile and closeLogFile leave the
\* blocks of every existing file as they are, a log call adds its block
\* behind the blocks already there, and so the blocks of a file stand in the
\* order of the calls that wrote them, across closing and reopening.
AppendNeverTruncates ==
    /\ [](\A path \in DOMAIN logFiles :
             \A idx, jdx \in 1..Len(logFiles[path]) :
                 idx < jdx =>
                     logFiles[path][idx].by[2] < logFiles[path][jdx].by[2])
    /\ [][/\ \A path \in DOMAIN logFiles :
                /\ path \in DOMAIN logFiles'
                /\ IsPrefix(logFiles[path], logFiles'[path])
          /\ \A t \in Threads :
                (Calls(t, "setLogFile") \/ Calls(t, "closeLogFile")) =>
                    \A path \in DOMAIN logFiles :
                        logFiles'[path] = logFiles[path]]_vars

\* setLogFile returns from reopening a path whose file holds a block, and
\* the block is still there
AppendNeverTruncatesWitness ==
    \E t \in Threads :
        /\ Returning(t, "setLogFile")
        /\ fileHandle
        /\ arg[t].path = PathAppLog
        /\ logFiles[PathAppLog] # << >>

\* the block without colour, written out line by line
PlainText(ev) ==
    << <<"[">> \o getTimestamp \o <<"]", " ">> \o SetwLeft(LevelLabel(ev.level))
          \o <<":", " ", GlyphTop, " ", "[">> \o ev.tag \o <<"]", " ">>
          \o ev.message >>
    \o (IF ev.trace # << >>
        THEN << padding
                  \o <<(IF ev.details = << >> THEN GlyphBottom ELSE GlyphMiddle),
                       " ">>
                  \o TraceText(ev.trace) >>
        ELSE << >>)
    \o [idx \in 1..Len(ev.details) |->
           padding
             \o <<(IF idx = Len(ev.details) THEN GlyphBottom ELSE GlyphMiddle),
                  " ", "[", ToString(idx), "]", " ">>
             \o ev.details[idx]]

\* ESC "[" somewhere in one of the lines
HasEscape(text) ==
    \E idx \in 1..Len(text) :
        \E pos \in 1..(Len(text[idx]) - 1) :
            text[idx][pos] = ESC /\ text[idx][pos + 1] = "["

Contains(str, sub) == FindSub(str, sub, 1) # 0

\* tag and message stand in the header line, each detail in its own line
Verbatim(ev, text) ==
    /\ Contains(text[1], <<"[">> \o ev.tag \o <<"]">>)
    /\ Contains(text[1], ev.message)
    /\ \A idx \in 1..Len(ev.details) :
           Contains(text[Len(text) - Len(ev.details) + idx], ev.details[idx])

\* the strings of the event hold no ESC
EscapeFree(ev) ==
    /\ \A pos \in 1..Len(ev.tag) : ev.tag[pos] # ESC
    /\ \A pos \in 1..Len(ev.message) : ev.message[pos] # ESC
    /\ \A pos \in 1..Len(ev.trace) : ev.trace[pos] # ESC
    /\ \A idx \in 1..Len(ev.details) :
           \A pos \in 1..Len(ev.details[idx]) : ev.details[idx][pos] # ESC

\* the block the returning log call left in the log file
FileBlock(t) == FileWritten(logFilePath, CallId(t))[1]

DestinationSetThenGet ==
    /\ [](\A t \in Threads :
             /\ Returning(t, "setOutputDestination") =>
                    outputDestination = arg[t].destination
             /\ Returning(t, "getOutputDestination") =>
                    arg[t].result = outputDestination)
    /\ [][/\ \A t \in Threads :
                Calls(t, "setOutputDestination") =>
                    /\ outputDestination' = arg'[t].destination
                    /\ UNCHANGED <<currentLevel, fileHandle, logFilePath,
                                   logFiles, console>>
          /\ (\A t \in Threads : ~Calls(t, "setOutputDestination")) =>
                outputDestination' = outputDestination]_vars

\* getOutputDestination returns NONE, set two calls before it, with the log
\* file still open
DestinationSetThenGetWitness ==
    \E t \in Threads :
        /\ Returning(t, "getOutputDestination")
        /\ arg[t].result = NO_OUTPUT
        /\ fileHandle
        /\ logFiles[logFilePath] # << >>

\* the lines the log call of thread t has put on the console
LinesOf(t) ==
    [idx \in 1..Len(Written(CallId(t))) |-> Written(CallId(t))[idx].line]

\* C31: in a rendered block the header comes first, then the trace line if
\* there is a trace, then the details; the last line after the header
\* carries the closing glyph and every line between carries the
\* continuation glyph; with neither trace nor details the block is the
\* header alone.
GlyphOrder ==
    \A t \in Threads :
        WriteDone(t) =>
            /\ Len(LinesOf(t)) = 1 + (IF arg[t].trace # << >> THEN 1 ELSE 0)
                                   + (IF arg[t].details # << >> THEN 1 ELSE 0)
            /\ LinesOf(t)[1].kind = "header"
            /\ LinesOf(t)[1].glyph = "top"
            /\ arg[t].trace # << >> => LinesOf(t)[2].kind = "trace"
            /\ arg[t].details # << >> =>
                   LinesOf(t)[Len(LinesOf(t))].kind = "details"
            /\ \A idx \in 2..Len(LinesOf(t)) :
                   LinesOf(t)[idx].glyph =
                       (IF idx = Len(LinesOf(t)) THEN "bottom" ELSE "middle")

\* a call with a trace and details has written its three lines
GlyphOrderWitness ==
    \E t \in Threads :
        /\ WriteDone(t)
        /\ arg[t].trace # << >>
        /\ arg[t].details # << >>
        /\ Len(LinesOf(t)) = 3

\* C32: for a trace "at <path>:<line> [<function>]", whatever separators and
\* drive letter the path has, the rendered trace line shows "at ", the final
\* path component and the unchanged ":<line> [<function>]"; a path without
\* directory is shown unchanged.
TraceShowsFilename ==
    \A t \in Threads :
        WriteDone(t) =>
            \A directory \in FmtDirectories, file \in FmtFiles,
               suffix \in FmtSuffixes :
                arg[t].trace = TraceOf(directory, file, suffix) =>
                    LinesOf(t)[2].text = AtPrefix \o file \o suffix

\* the name the claim gives to a level
UpperLevelName(level) ==
    CASE level = DEBUG -> <<"D", "E", "B", "U", "G">>
      [] level = INFO -> <<"I", "N", "F", "O">>
      [] level = WARN -> <<"W", "A", "R", "N">>
      [] level = ERROR -> <<"E", "R", "R", "O", "R">>
      [] level = FATAL -> <<"F", "A", "T", "A", "L">>

\* C33: the level name in every header line is the upper-case name of the
\* level of the call, DEBUG, INFO, WARN, ERROR or FATAL, and no two levels
\* share a name.
LevelNamesUpper ==
    /\ \A idx \in 1..Len(console) :
           console[idx].line.kind = "header" =>
               console[idx].line.name = UpperLevelName(console[idx].line.level)
    /\ \A idx, jdx \in 1..Len(console) :
           (/\ console[idx].line.kind = "header"
            /\ console[jdx].line.kind = "header"
            /\ console[idx].line.level # console[jdx].line.level) =>
               console[idx].line.name # console[jdx].line.name

\* thread t is inside setLogLevel, getLogLevel, a log call or
\* loadConfigFromFile
InCall(t) == pc[t] \notin {"idle", "ctor", "once_wait"}

\* C34: under fair scheduling every call a thread has started returns: a
\* thread that is inside setLogLevel, getLogLevel, a log call or
\* loadConfigFromFile is eventually back at its caller, whatever the other
\* threads call meanwhile.
EveryCallReturns ==
    \A t \in Threads : InCall(t) ~> (pc[t] = "idle")

\* one thread waits for the output lock while the other, which holds it,
\* has still lines to write
EveryCallReturnsWitness ==
    \E t, u \in Threads :
        /\ t # u
        /\ pc[t] = "log_lock"
        /\ logMutex = u
        /\ out[u] # << >>

\* thread t assigns currentLevel in this step, in setLogLevel or in
\* loadConfigFromFile
AssignsLevel(t) ==
    \/ pc[t] = "set_assign" /\ pc'[t] # "set_assign"
    \/ pc[t] = "cfg_assign" /\ pc'[t] # "cfg_assign"

\* C35: construction and the default configuration run once, in the first
\* getInstance: once the logger is constructed no step of any getInstance
\* constructs again or changes currentLevel, which from then on changes
\* only where setLogLevel or loadConfigFromFile assigns it.
LaterGetInstanceKeepsLevel ==
    /\ [](constructions <= 1)
    /\ [][constructions >= 1 =>
             /\ constructions' = constructions
             /\ opened' # opened =>
                    \E t \in Threads : pc'[t] \in {"cfg_lock", "cfg_ret"}
             /\ currentLevel' # currentLevel =>
                    \E t \in Threads : AssignsLevel(t)]_vars

\* a thread that made no call holds the instance while the threshold is
\* the NONE another thread installed after construction
LaterGetInstanceKeepsLevelWitness ==
    \E t, u \in Threads :
        /\ t # u
        /\ ref[u] = instance
        /\ instance # 0
        /\ ncalls[u] = 0
        /\ pc[u] = "idle"
        /\ ncalls[t] > 0
        /\ currentLevel = NONE
        /\ currentLevel # loadEnvLogLevel(fs)

\* the levels the key lines of a file name: the line holds LOG_LEVEL, in
\* any case, and behind its "=" one of the level names or numbers
LevelsNamed(lines) ==
    { levelMap[name] : name \in
        { name \in DOMAIN levelMap :
            \E idx \in 1..Len(lines) :
                /\ Contains(ToUpperStr(lines[idx]), LOG_LEVEL_KEY)
                /\ FindChar(lines[idx], "=") # 0
                /\ Contains(ToUpperStr(SubSeq(lines[idx],
                                              FindChar(lines[idx], "=") + 1,
                                              Len(lines[idx]))), name) } }

\* C36: a loadConfigFromFile call assigns currentLevel at most once, in one
\* step right before it returns; a call that returns false never reaches
\* that step and leaves currentLevel as it was, and a call that returns
\* true leaves the level one of its file's key lines names.
LoadAssignsOnce ==
    /\ [](\A t \in Threads :
             /\ pc[t] \in {"cfg_lock", "cfg_assign"} => arg[t].ok
             /\ (pc[t] = "cfg_ret" /\ arg[t].ok) =>
                    /\ currentLevel = arg[t].level
                    /\ arg[t].path \in DOMAIN fs
                    /\ currentLevel \in LevelsNamed(fs[arg[t].path]))
    /\ [][\A t \in Threads :
             /\ ((InLoad(pc, arg, t) \/ InLoad(pc', arg', t))
                   /\ currentLevel' # currentLevel) =>
                    pc[t] = "cfg_assign" /\ pc'[t] = "cfg_ret"
             /\ pc[t] = "cfg_ret" => pc'[t] \in {"cfg_ret", "idle"}
             /\ (InLoad(pc', arg', t) /\ ~arg'[t].ok) =>
                    /\ pc'[t] = "cfg_ret"
                    /\ currentLevel' = currentLevel]_vars

\* a load returns true after its one assignment changed the threshold
LoadAssignsOnceWitness ==
    \E t \in Threads :
        /\ pc[t] = "cfg_ret"
        /\ arg[t].ok
        /\ currentLevel = arg[t].level
        /\ currentLevel # loadEnvLogLevel(fs)

\* C37: no configuration file sets the threshold to NONE: at construction
\* and after every load the threshold is DEBUG, INFO, WARN or ERROR, a
\* load of a file that asks for NONE or 5 returns false, and no step of a
\* construction or a load turns the threshold into NONE.
ConfigNeverNone ==
    /\ [](/\ currentLevel \in FmtLevelInputs
          /\ \A t \in Threads :
                 (pc[t] = "cfg_ret" /\ arg[t].ok) =>
                     arg[t].level \in FmtLevelInputs
          /\ \A t \in Threads :
                 (pc[t] = "cfg_ret"
                    /\ LoadsOneOf(pc, arg, t, { <<KeyLine(Tok.NONE)>>,
                                                <<KeyLine(Tok.n5)>> })) =>
                     ~arg[t].ok)
    /\ [][currentLevel' = NONE => currentLevel = NONE]_vars

\* a load of a file whose key line asks for NONE has returned false
ConfigNeverNoneWitness ==
    \E t \in Threads :
        /\ pc[t] = "cfg_ret"
        /\ LoadsOneOf(pc, arg, t, { <<KeyLine(Tok.NONE)>> })
        /\ ~arg[t].ok
        /\ currentLevel = loadEnvLogLevel(fs)

\* thread t takes the step of a setLogLevel, a loadConfigFromFile or the
\* constructor that stores a level
Stores(t) ==
    \/ /\ pc[t] = "set_assign"
       /\ pc'[t] = "idle"
       /\ currentLevel' = arg[t].level
    \/ /\ pc[t] = "cfg_assign"
       /\ pc'[t] = "cfg_ret"
       /\ currentLevel' = arg[t].level
    \/ /\ pc[t] = "ctor"
       /\ pc'[t] = "idle"
       /\ currentLevel' = loadEnvLogLevel(fs)

\* C38: with setLogLevel and getLogLevel running in different threads the
\* level behaves as an atomic register: the threshold always is the value of
\* the most recent store, it changes only in the one storing step of a
\* setLogLevel (to the level passed), of a load or of the constructor, a
\* getLogLevel takes its result in one step between its call and its return,
\* that result is the value of the most recent store at that step, and the
\* result stays as read until the call returns; so no result is a value
\* that had been overwritten before the call started.
LevelIsAtomicRegister ==
    /\ [](currentLevel = lastWrite)
    /\ [][/\ (currentLevel' # currentLevel \/ lastWrite' # lastWrite) =>
               \E u \in Threads : Stores(u)
          /\ \A t \in Threads :
                 /\ (pc[t] # "get_ret" /\ pc'[t] = "get_ret") =>
                        /\ pc[t] = "get_read"
                        /\ levelMutex = t
                        /\ arg'[t].result = lastWrite
                        /\ lastWrite' = lastWrite
                 /\ (pc[t] = "get_ret" /\ pc'[t] = "get_ret") =>
                        arg'[t].result = arg[t].result
                 /\ (pc[t] = "get_ret" /\ pc'[t] # "get_ret") =>
                        /\ pc'[t] = "idle"
                        /\ lastWrite' = lastWrite]_vars

\* a getLogLevel that read NONE, stored by the other thread's first
\* setLogLevel, is about to return it after the other thread's second
\* setLogLevel has stored WARN
LevelIsAtomicRegisterWitness ==
    \E t, u \in Threads :
        /\ t # u
        /\ pc[t] = "get_ret"
        /\ arg[t].result = NONE
        /\ currentLevel = WARN
        /\ pc[u] = "idle"
        /\ ncalls[u] = 2
        /\ ncalls[t] = 0

\* .ini files whose first level key line stands outside every section and
\* has an invalid value, and whose later valid level key lines all stand
\* outside the recognised sections
FlatAfterInvalidDocs ==
    { IniDoc.bogus_then_valid, IniDoc.bogus_then_two_valid,
      IniDoc.after_bogus_unknown }

\* .ini files whose first level key line stands outside every section and
\* has an invalid value, with the level of their first valid level key line
\* inside a recognised section
SectionAfterInvalid ==
    ( IniDoc.bogus_flat_section :> INFO ) @@
    ( IniDoc.bogus_section_gap :> ERROR ) @@
    ( IniDoc.after_bogus_logging :> INFO ) @@
    ( IniDoc.flat_then_section :> WARN )

============================================================================
